---- MODULE Spec2Model ----
(***************************************************************************)
(* AURORA / AWARE control loop.                                            *)
(*                                                                         *)
(* The model covers AWAREOrchestrator.run_aware_cycle (the stage machine), *)
(* WeighAgent.weigh, ActAgent.act with its three executors and the         *)
(* optimistic-concurrency retry of _retry_deployment_patch,                *)
(* ReflectAgent.reflect and EnrichAgent.enrich.                            *)
(*                                                                         *)
(* Units: error rate in 1/10000, latency in ms, throughput in req/s, cost  *)
(* per request in 1e-5 dollars (so the threshold 0.001 is 100 and a cost   *)
(* is also its percentage of the threshold), health in points 0..100,      *)
(* utilities in 1/100, Q-values and rewards in 1/1000, CPU in millicores.  *)
(* An optional value (Python None) is the empty sequence, a present value  *)
(* x is <<x>>.                                                             *)
(***************************************************************************)
EXTENDS Integers, Sequences, FiniteSets, TLC

\* ------------------------------------------------------------------ bounds
\* Number of run_aware_cycle calls explored.
MaxCycles == 2
\* Number of writes by other clients of the control plane while cycles run.
MaxCycleExternalWrites == 1
\* Number of writes by other clients of the control plane during one resize
\* that is examined on its own.
MaxExternalWrites == 3
\* Actions in a Decision handed to act() on its own.
MaxActions == 2
\* Largest replica count found on the cluster when act() reads it.
MaxReplicasRead == 8
MaxEnrichCalls == 4
MaxSaveCalls == 10
MaxStarts == 2

\* enrich() calls of one process in the specification of the periodic save.
MaxRetryCalls == 20

\* ------------------------------------------------------- program constants
MAX_PODS == 5
MAX_RETRIES == 3
RL_UPDATE_FREQUENCY == 10
\* THRESHOLDS of constants.py in the model's units.
MAX_ERROR_RATE == 500
MAX_LATENCY == 1000
MIN_THROUGHPUT == 10
MAX_COST_PER_REQUEST == 100
\* SUCCESS_THRESHOLD * 100 and DEGRADATION_THRESHOLD * 100.
SUCCESS_DELTA == 80
DEGRADATION_DELTA == -10
\* PATTERN_MINING_MIN_SUPPORT * 10 and PATTERN_MINING_MIN_CONFIDENCE in percent.
MIN_SUPPORT_COUNT == 3
MIN_CONFIDENCE_PCT == 70
\* EnrichAgent.learning_rate and discount_factor, in 1/1000.
LEARNING_RATE_MILLI == 100
DISCOUNT_MILLI == 950
\* constants.py, shared knowledge base configuration, in 1/1000.
POLICY_LEARNING_RATE == 10
DISCOUNT_FACTOR == 950

None == << >>
Some(x) == << x >>
IsNone(o) == o = << >>
Val(o) == o[1]

Min(a, b) == IF a < b THEN a ELSE b
Max(a, b) == IF a > b THEN a ELSE b
Abs(a) == IF a < 0 THEN 0 - a ELSE a

\* ------------------------------------------------------------- snapshots
\* The snapshots AssessAgent.assess can hand to the cycle.  Each carries the
\* four derived metrics, the number of SLO violations of severity <= 2, the
\* number of metrics carrying anomalies and the health score.
Snap(er, lat, thr, cost, crit, anom, h) ==
    [error_rate |-> er, latency |-> lat, throughput |-> thr, cost |-> cost,
     critical |-> crit, anomalies |-> anom, health |-> h]

SnapStable   == Snap(200, 450, 20, 80, 0, 0, 100)
SnapCritical == Snap(800, 600, 20, 80, 1, 0, 40)
SnapCheap    == Snap(200, 600, 20, 30, 0, 0, 95)
SnapCostly   == Snap(200, 600, 20, 120, 0, 0, 75)
SnapIdle     == Snap(100, 400, 5, 80, 0, 0, 100)
SnapNoisy    == Snap(200, 600, 20, 80, 0, 6, 60)
SnapRecovered == Snap(300, 550, 30, 70, 0, 0, 90)

Snapshots == {SnapStable, SnapCritical, SnapCheap, SnapNoisy}
PostSnapshots == {SnapCritical, SnapRecovered}

\* ------------------------------------------------------------ WeighAgent
Candidate(name, operation, amount, factor, priority) ==
    [name |-> name, operation |-> operation, amount |-> amount,
     factor |-> factor, priority |-> priority, utility |-> 0]

\* The rules with rule 4 firing at 50% of the threshold too.
generate_candidates_inclusive(s) ==
    (IF s.error_rate > MAX_ERROR_RATE \/ s.latency > MAX_LATENCY
        THEN << Candidate("horizontal", "increase", 1, 0, 1) >>
        ELSE IF /\ 4 * s.error_rate < MAX_ERROR_RATE
                /\ 2 * s.latency < MAX_LATENCY
                /\ s.throughput < MIN_THROUGHPUT
                THEN << Candidate("horizontal", "decrease", 1, 0, 3) >>
                ELSE << >>)
    \o
    (IF 100 * s.cost > 105 * MAX_COST_PER_REQUEST
        THEN << Candidate("vertical", "increase", 0, 150, 2) >>
        ELSE IF 2 * s.cost <= MAX_COST_PER_REQUEST
                THEN << Candidate("vertical", "decrease", 0, 75, 3) >>
                ELSE << >>)
    \o
    (IF s.critical > 0
        THEN << Candidate("horizontal", "increase", 2, 0, 0) >>
        ELSE << >>)
    \o
    (IF s.anomalies > 5
        THEN << Candidate("restart", "", 0, 0, 2) >>
        ELSE << >>)

\* The rules with rule 5 chained to rule 1: no second scale-out candidate.
generate_candidates_one_scale_out(s) ==
    (IF s.error_rate > MAX_ERROR_RATE \/ s.latency > MAX_LATENCY
        THEN << Candidate("horizontal", "increase", 1, 0, 1) >>
        ELSE IF /\ 4 * s.error_rate < MAX_ERROR_RATE
                /\ 2 * s.latency < MAX_LATENCY
                /\ s.throughput < MIN_THROUGHPUT
                THEN << Candidate("horizontal", "decrease", 1, 0, 3) >>
                ELSE << >>)
    \o
    (IF 100 * s.cost > 105 * MAX_COST_PER_REQUEST
        THEN << Candidate("vertical", "increase", 0, 150, 2) >>
        ELSE IF 2 * s.cost < MAX_COST_PER_REQUEST
                THEN << Candidate("vertical", "decrease", 0, 75, 3) >>
                ELSE << >>)
    \o
    (IF /\ s.critical > 0
        /\ ~(s.error_rate > MAX_ERROR_RATE \/ s.latency > MAX_LATENCY)
        THEN << Candidate("horizontal", "increase", 2, 0, 0) >>
        ELSE << >>)
    \o
    (IF s.anomalies > 5
        THEN << Candidate("restart", "", 0, 0, 2) >>
        ELSE << >>)

\* Rules 1/2, 3/4, 5 and 6 of _generate_candidates, in list order.  A factor
\* is kept in percent (1.5 is 150, 0.75 is 75).
generate_candidates(s) ==
    (IF s.error_rate > MAX_ERROR_RATE \/ s.latency > MAX_LATENCY
        THEN << Candidate("horizontal", "increase", 1, 0, 1) >>
        ELSE IF /\ 4 * s.error_rate < MAX_ERROR_RATE
                /\ 2 * s.latency < MAX_LATENCY
                /\ s.throughput < MIN_THROUGHPUT
                THEN << Candidate("horizontal", "decrease", 1, 0, 3) >>
                ELSE << >>)
    \o
    (IF 100 * s.cost > 105 * MAX_COST_PER_REQUEST
        THEN << Candidate("vertical", "increase", 0, 150, 2) >>
        ELSE IF 2 * s.cost < MAX_COST_PER_REQUEST
                THEN << Candidate("vertical", "decrease", 0, 75, 3) >>
                ELSE << >>)
    \o
    (IF s.critical > 0
        THEN << Candidate("horizontal", "increase", 2, 0, 0) >>
        ELSE << >>)
    \o
    (IF s.anomalies > 5
        THEN << Candidate("restart", "", 0, 0, 2) >>
        ELSE << >>)

\* The utility with the tiers read the other way round (3 the most urgent).
utility_of_inverted_tiers(c, s) ==
    LET base_utility == 40 + c.priority * 20
        cost_pct == (s.cost * 100) \div MAX_COST_PER_REQUEST
    IN  CASE c.name = "horizontal" /\ c.operation = "increase" ->
                base_utility * (100 - s.health)
          [] c.name = "horizontal" ->
                base_utility * s.health
          [] c.name = "vertical" /\ c.operation = "increase" ->
                base_utility * Min(cost_pct, 200)
          [] c.name = "vertical" ->
                base_utility * Max(100 - cost_pct, 50)
          [] c.name = "restart" ->
                base_utility * (100 - s.health)
          [] OTHER -> base_utility * 100

\* The utility _evaluate_utilities gives one candidate, in 1/100.
utility_of(c, s) ==
    LET base_utility == 100 - c.priority * 20
        cost_pct == (s.cost * 100) \div MAX_COST_PER_REQUEST
    IN  CASE c.name = "horizontal" /\ c.operation = "increase" ->
                base_utility * (100 - s.health)
          [] c.name = "horizontal" ->
                base_utility * s.health
          [] c.name = "vertical" /\ c.operation = "increase" ->
                base_utility * Min(cost_pct, 200)
          [] c.name = "vertical" ->
                base_utility * Max(100 - cost_pct, 50)
          [] c.name = "restart" ->
                base_utility * (100 - s.health)
          [] OTHER -> base_utility * 100

evaluate_utilities(candidates, s) ==
    [i \in 1..Len(candidates) |->
        [candidates[i] EXCEPT !.utility = utility_of(candidates[i], s)]]

\* sorted(..., key=utility, reverse=True) keeps candidates of equal utility
\* in list order: here by insertion, each candidate going behind every one
\* already placed whose utility is not smaller.
RECURSIVE insert_unstable(_, _)
insert_unstable(c, sorted) ==
    IF sorted = << >> THEN << c >>
    ELSE IF Head(sorted).utility > c.utility
            THEN << Head(sorted) >> \o insert_unstable(c, Tail(sorted))
            ELSE << c >> \o sorted

RECURSIVE insert_by_utility(_, _)
insert_by_utility(c, sorted) ==
    IF sorted = << >> THEN << c >>
    ELSE IF Head(sorted).utility >= c.utility
            THEN << Head(sorted) >> \o insert_by_utility(c, Tail(sorted))
            ELSE << c >> \o sorted

RECURSIVE sorted_candidates(_, _)
sorted_candidates(evaluated, n) ==
    IF n = 0 THEN << >>
    ELSE insert_by_utility(evaluated[n], sorted_candidates(evaluated, n - 1))

\* A refinement that prefers the candidate the utilities rank last.
apply_learned_policies_reranks(selected, candidates) ==
    << candidates[Len(candidates)] >>

\* _apply_learned_policies: a placeholder, the selection is returned as is.
apply_learned_policies(selected, candidates) == selected

\* A selection that proposes nothing when the best utility is 0.
select_actions_positive_only(evaluated, knowledge_base) ==
    IF evaluated = << >> THEN << >>
    ELSE LET sorted == sorted_candidates(evaluated, Len(evaluated))
         IN  IF sorted[1].utility > 0 THEN << sorted[1] >> ELSE << >>

\* _select_actions: the head of the sorted list, alone, handed to
\* _apply_learned_policies when self.knowledge_base is a non-empty dict.
select_actions(evaluated, knowledge_base) ==
    IF evaluated = << >> THEN << >>
    ELSE LET sorted == sorted_candidates(evaluated, Len(evaluated))
             selected == << sorted[1] >>
         IN  IF knowledge_base.patterns # << >>
                   \/ knowledge_base.statistics # << >>
                THEN apply_learned_policies(selected, sorted)
                ELSE selected

\* {a["name"]: a.get("utility", 0) for a in evaluated_candidates}: a dict
\* keeps one value per key, that of the last candidate with the name.
utility_scores(evaluated) ==
    [name \in {evaluated[i].name : i \in DOMAIN evaluated} |->
        LET last == CHOOSE i \in DOMAIN evaluated :
                        /\ evaluated[i].name = name
                        /\ \A j \in DOMAIN evaluated :
                              evaluated[j].name = name => j <= i
        IN  evaluated[last].utility]

\* weigh() of a WeighAgent whose self.knowledge_base is knowledge_base, the
\* dict it shares with the EnrichAgent.
weigh(s, knowledge_base) ==
    LET candidates == generate_candidates(s)
        evaluated == evaluate_utilities(candidates, s)
    IN  [actions |-> select_actions(evaluated, knowledge_base),
         candidates_evaluated |-> Len(candidates),
         utility_scores |-> utility_scores(evaluated),
         evaluated |-> evaluated]

\* ---------------------------------------------------------- ReflectAgent
Metrics == <<"http.error.rate", "http.latency", "http.throughput",
             "cost.per.request">>
LowerIsBetter == {"http.error.rate", "http.latency", "cost.per.request"}

MetricValue(s, metric) ==
    CASE metric = "http.error.rate" -> s.error_rate
      [] metric = "http.latency" -> s.latency
      [] metric = "http.throughput" -> s.throughput
      [] OTHER -> s.cost

\* abs(pct_change) in 1/100 percent; 0 when the pre value is 0.
change_pct_abs(pre_value, post_value) ==
    IF pre_value # 0
        THEN (Abs(post_value - pre_value) * 10000) \div Abs(pre_value)
        ELSE 0

is_improvement(metric, pre_value, post_value) ==
    IF metric \in LowerIsBetter THEN post_value < pre_value
    ELSE post_value > pre_value

is_degradation(metric, pre_value, post_value) ==
    IF metric \in LowerIsBetter THEN post_value > pre_value
    ELSE post_value < pre_value

\* A change from 0 taken as a change of more than 5%.
significant_from_zero(pre_value, post_value) ==
    IF pre_value = 0 THEN post_value # 0
    ELSE Abs(post_value - pre_value) * 100 > 5 * Abs(pre_value)

\* abs(pct_change) > 5, on the exact quotient.
significant(pre_value, post_value) ==
    pre_value # 0 /\ Abs(post_value - pre_value) * 100 > 5 * Abs(pre_value)

RECURSIVE identify(_, _, _, _)
identify(kind, pre_state, post_state, i) ==
    IF i > Len(Metrics) THEN << >>
    ELSE LET metric == Metrics[i]
             pre_value == MetricValue(pre_state, metric)
             post_value == MetricValue(post_state, metric)
             hit == /\ IF kind = "improvement"
                          THEN is_improvement(metric, pre_value, post_value)
                          ELSE is_degradation(metric, pre_value, post_value)
                    /\ significant(pre_value, post_value)
         IN  (IF hit
                 THEN << [metric |-> metric,
                          change_pct |-> change_pct_abs(pre_value, post_value)] >>
                 ELSE << >>)
             \o identify(kind, pre_state, post_state, i + 1)

identify_improvements(pre_state, post_state) ==
    identify("improvement", pre_state, post_state, 1)

identify_degradations(pre_state, post_state) ==
    identify("degradation", pre_state, post_state, 1)

RECURSIVE SumPct(_, _)
SumPct(changes, i) ==
    IF i > Len(changes) THEN 0 ELSE changes[i].change_pct + SumPct(changes, i + 1)

\* _evaluate_success failing at the degradation threshold itself.
evaluate_success_inclusive(health_delta, improvements, degradations) ==
    IF health_delta > SUCCESS_DELTA THEN TRUE
    ELSE IF health_delta <= DEGRADATION_DELTA THEN FALSE
    ELSE IF Len(improvements) > Len(degradations) THEN TRUE
    ELSE IF improvements # << >> /\ degradations # << >>
        THEN SumPct(improvements, 1) * Len(degradations)
                > SumPct(degradations, 1) * Len(improvements)
    ELSE IF improvements # << >> THEN TRUE
    ELSE FALSE

evaluate_success(health_delta, improvements, degradations) ==
    IF health_delta > SUCCESS_DELTA THEN TRUE
    ELSE IF health_delta < DEGRADATION_DELTA THEN FALSE
    ELSE IF Len(improvements) > Len(degradations) THEN TRUE
    ELSE IF improvements # << >> /\ degradations # << >>
        THEN SumPct(improvements, 1) * Len(degradations)
                > SumPct(degradations, 1) * Len(improvements)
    ELSE IF improvements # << >> THEN TRUE
    ELSE FALSE

\* reflect() without its "Check if execution itself succeeded" short-circuit:
\* the metrics are compared whatever the ExecutionResult says.
reflect_ignoring_failure(pre_state, post_state, execution_success) ==
    LET improvements == identify_improvements(pre_state, post_state)
        degradations == identify_degradations(pre_state, post_state)
        health_delta == post_state.health - pre_state.health
    IN  [success |-> evaluate_success(health_delta, improvements,
                                      degradations),
         reason |-> "",
         health_delta |-> Some(health_delta),
         improvements |-> Some(improvements),
         degradations |-> Some(degradations)]

\* reflect() comparing the metrics before it looks at the ExecutionResult:
\* the record of a failed execution carries the comparison.
reflect_compares_first(pre_state, post_state, execution_success) ==
    LET improvements == identify_improvements(pre_state, post_state)
        degradations == identify_degradations(pre_state, post_state)
        health_delta == post_state.health - pre_state.health
    IN  [success |-> execution_success
                        /\ evaluate_success(health_delta, improvements,
                                            degradations),
         reason |-> IF execution_success THEN "" ELSE "Execution failed",
         health_delta |-> Some(health_delta),
         improvements |-> Some(improvements),
         degradations |-> Some(degradations)]

\* The Reflection reflect() builds.  The short-circuit record of a failed
\* execution has no health_delta, improvements or degradations keys.
reflect(pre_state, post_state, execution_success) ==
    IF ~execution_success
        THEN [success |-> FALSE, reason |-> "Execution failed",
              health_delta |-> None, improvements |-> None,
              degradations |-> None]
        ELSE LET improvements == identify_improvements(pre_state, post_state)
                 degradations == identify_degradations(pre_state, post_state)
                 health_delta == post_state.health - pre_state.health
             IN  [success |-> evaluate_success(health_delta, improvements,
                                               degradations),
                  reason |-> "",
                  health_delta |-> Some(health_delta),
                  improvements |-> Some(improvements),
                  degradations |-> Some(degradations)]

\* ----------------------------------------------------------- EnrichAgent
Get(f, k, default) == IF k \in DOMAIN f THEN f[k] ELSE default
Put(f, k, v) == [x \in (DOMAIN f) \cup {k} |-> IF x = k THEN v ELSE f[x]]
EmptyMap == [x \in {} |-> 0]

error_bucket(s) ==
    IF s.error_rate > 500 THEN "high"
    ELSE IF s.error_rate > 100 THEN "medium" ELSE "low"

latency_bucket(s) ==
    IF s.latency > 1000 THEN "high"
    ELSE IF s.latency > 500 THEN "medium" ELSE "low"

throughput_bucket(s) ==
    IF s.throughput > 50 THEN "high"
    ELSE IF s.throughput > 10 THEN "medium" ELSE "low"

health_level(s) ==
    IF s.health < 50 THEN "critical"
    ELSE IF s.health < 80 THEN "degraded" ELSE "healthy"

create_pattern_key(s, action) ==
    <<error_bucket(s), latency_bucket(s), throughput_bucket(s),
      action.name, action.operation>>

get_state_key(s) == <<error_bucket(s), latency_bucket(s), health_level(s)>>

action_key_of(action) == <<action.name, action.operation>>

get_possible_actions ==
    {<<"horizontal", "increase">>, <<"horizontal", "decrease">>,
     <<"vertical", "increase">>, <<"vertical", "decrease">>,
     <<"restart", "">>}

\* health_delta / 10 plus 10 on success, minus 5 otherwise, in 1/1000.
calculate_reward(health_delta, success) ==
    health_delta * 100 + (IF success THEN 10000 ELSE 0 - 5000)

SetMax(S) == CHOOSE x \in S : \A y \in S : y <= x

\* The update written under the key of the state after the adaptation.
q_update_at_post_state(q, pre_key, post_key, action, reward) ==
    LET q_key == <<post_key, action_key_of(action)>>
        current_q == Get(q, q_key, 0)
        next_max_q == SetMax({Get(q, <<post_key, a>>, 0) :
                                 a \in get_possible_actions})
        target == reward + (DISCOUNT_MILLI * next_max_q) \div 1000 - current_q
    IN  Put(q, q_key, current_q + (LEARNING_RATE_MILLI * target) \div 1000)

\* One Q-learning update of q for (pre key, action key), in 1/1000.
q_update(q, pre_key, post_key, action, reward) ==
    LET q_key == <<pre_key, action_key_of(action)>>
        current_q == Get(q, q_key, 0)
        next_max_q == SetMax({Get(q, <<post_key, a>>, 0) :
                                 a \in get_possible_actions})
        target == reward + (DISCOUNT_MILLI * next_max_q) \div 1000 - current_q
    IN  Put(q, q_key, current_q + (LEARNING_RATE_MILLI * target) \div 1000)

RECURSIVE update_rl_policies(_, _, _, _, _, _)
update_rl_policies(q, pre_state, actions, post_state, reward, i) ==
    IF i > Len(actions) THEN q
    ELSE update_rl_policies(
            q_update(q, get_state_key(pre_state), get_state_key(post_state),
                     actions[i], reward),
            pre_state, actions, post_state, reward, i + 1)

\* _mine_patterns promoting on the confidence floor alone.
mine_one_without_support_floor(m, pre_state, action, success, health_delta) ==
    LET key == create_pattern_key(pre_state, action)
        support == Get(m.counts, key, 0) + 1
        succ == Get(m.successes, key, 0) + (IF success THEN 1 ELSE 0)
        promoted == 100 * succ >= MIN_CONFIDENCE_PCT * support
        pattern == [action_type |-> action.name, operation |-> action.operation,
                    support |-> support, successes |-> succ,
                    avg_health_delta |-> health_delta]
    IN  [counts |-> Put(m.counts, key, support),
         successes |-> IF success THEN Put(m.successes, key, succ)
                       ELSE m.successes,
         patterns |-> IF promoted THEN Put(m.patterns, key, pattern)
                      ELSE m.patterns,
         learned |-> IF promoted THEN Append(m.learned, key) ELSE m.learned]

\* _mine_patterns taking a key out of the pattern table when its counts no
\* longer meet the floors.
mine_one_drops_stale(m, pre_state, action, success, health_delta) ==
    LET key == create_pattern_key(pre_state, action)
        support == Get(m.counts, key, 0) + 1
        succ == Get(m.successes, key, 0) + (IF success THEN 1 ELSE 0)
        promoted == /\ support >= MIN_SUPPORT_COUNT
                    /\ 100 * succ >= MIN_CONFIDENCE_PCT * support
        pattern == [action_type |-> action.name, operation |-> action.operation,
                    support |-> support, successes |-> succ,
                    avg_health_delta |-> health_delta]
    IN  [counts |-> Put(m.counts, key, support),
         successes |-> IF success THEN Put(m.successes, key, succ)
                       ELSE m.successes,
         patterns |-> IF promoted THEN Put(m.patterns, key, pattern)
                      ELSE [k \in DOMAIN m.patterns \ {key} |->
                               m.patterns[k]],
         learned |-> IF promoted THEN Append(m.learned, key) ELSE m.learned]

\* _mine_patterns on the state m = [counts, successes, patterns, learned].
mine_one(m, pre_state, action, success, health_delta) ==
    LET key == create_pattern_key(pre_state, action)
        support == Get(m.counts, key, 0) + 1
        succ == Get(m.successes, key, 0) + (IF success THEN 1 ELSE 0)
        promoted == /\ support >= MIN_SUPPORT_COUNT
                    /\ 100 * succ >= MIN_CONFIDENCE_PCT * support
        pattern == [action_type |-> action.name, operation |-> action.operation,
                    support |-> support, successes |-> succ,
                    avg_health_delta |-> health_delta]
    IN  [counts |-> Put(m.counts, key, support),
         successes |-> IF success THEN Put(m.successes, key, succ)
                       ELSE m.successes,
         patterns |-> IF promoted THEN Put(m.patterns, key, pattern)
                      ELSE m.patterns,
         learned |-> IF promoted THEN Append(m.learned, key) ELSE m.learned]

RECURSIVE mine_patterns(_, _, _, _, _, _)
mine_patterns(m, pre_state, actions, success, health_delta, i) ==
    IF i > Len(actions) THEN m
    ELSE mine_patterns(mine_one(m, pre_state, actions[i], success, health_delta),
                       pre_state, actions, success, health_delta, i + 1)

NewStatistics ==
    [total_adaptations |-> 0, successful_adaptations |-> 0,
     action_counts |-> EmptyMap, action_successes |-> EmptyMap]

RECURSIVE count_actions(_, _, _, _)
count_actions(stats, actions, success, i) ==
    IF i > Len(actions) THEN stats
    ELSE LET action_type == actions[i].name
         IN  count_actions(
                [stats EXCEPT
                    !.action_counts =
                        Put(@, action_type, Get(@, action_type, 0) + 1),
                    !.action_successes =
                        IF success
                            THEN Put(@, action_type, Get(@, action_type, 0) + 1)
                            ELSE @],
                actions, success, i + 1)

\* _update_statistics counting one adaptation per action of the Decision.
update_statistics_per_action(statistics, actions, success) ==
    LET stats == IF IsNone(statistics) THEN NewStatistics ELSE Val(statistics)
        counted == [stats EXCEPT
                      !.total_adaptations = @ + Len(actions),
                      !.successful_adaptations =
                          IF success THEN @ + Len(actions) ELSE @]
    IN  Some(count_actions(counted, actions, success, 1))

\* _update_statistics on the optional "statistics" entry of the knowledge base.
update_statistics(statistics, actions, success) ==
    LET stats == IF IsNone(statistics) THEN NewStatistics ELSE Val(statistics)
        counted == [stats EXCEPT
                      !.total_adaptations = @ + 1,
                      !.successful_adaptations = IF success THEN @ + 1 ELSE @]
    IN  Some(count_actions(counted, actions, success, 1))

\* -------------------------------------------------------------- ActAgent
\* The resource requests and limits of the deployment's container, as a map
\* from the present entries to millicores.
DeploymentSpecs ==
    { ("requests" :> 200 @@ "limits" :> 400),
      ("requests" :> 250),
      ("requests" :> 300 @@ "limits" :> 300) }

\* What another client of the control plane may write meanwhile.
ExternalSpecs ==
    { ("requests" :> 100 @@ "limits" :> 400),
      ("requests" :> 500 @@ "limits" :> 1000) }

\* _adjust_resource_value for a value with an integer unit suffix:
\* int(base * scale_factor), scale_factor = factor or 1 / factor.
adjust_resource_value(old_val, operation, factor) ==
    IF operation = "increase" THEN (old_val * factor) \div 100
    ELSE (old_val * 100) \div factor

\* modify_resources of _vertical_scale: every present entry is adjusted once.
modify_resources(spec, action) ==
    [r \in DOMAIN spec |->
        adjust_resource_value(spec[r], action.operation, action.factor)]

Result(action_type, success, error) ==
    [action |-> action_type, success |-> success, error |-> error]

\* The result of a scaling that went through: it names the count read and
\* the count written.
ScaleResult(curr_replicas, new_count) ==
    [action |-> "horizontal", success |-> TRUE, error |-> "",
     previous_replicas |-> curr_replicas, new_replicas |-> new_count]

\* new_count of _horizontal_scale.
new_replica_count(curr_replicas, operation, amount) ==
    IF operation = "increase" THEN Min(curr_replicas + amount, MAX_PODS)
    ELSE Max(curr_replicas - amount, 1)

RECURSIVE all_success(_, _)
all_success(results, i) ==
    IF i > Len(results) THEN TRUE
    ELSE results[i].success /\ all_success(results, i + 1)

RECURSIVE collect_errors(_, _)
collect_errors(results, i) ==
    IF i > Len(results) THEN << >>
    ELSE (IF results[i].success THEN << >> ELSE << results[i].error >>)
         \o collect_errors(results, i + 1)

\* The ExecutionResult act() returns for the per-action results.
make_execution_result(actions, results) ==
    [success |-> all_success(results, 1),
     actions_executed |-> Len(actions),
     results |-> results,
     errors |-> collect_errors(results, 1)]

\* ------------------------------------------------------------------ state
VARIABLES
    \* AWAREOrchestrator
    cycle_count,        \* self.cycle_count
    pc,                 \* position inside run_aware_cycle ("idle" outside)
    status,             \* cycle_result["status"] of the current or last cycle
    calls,              \* stage calls made by the current cycle, in order
    raised,             \* the stage whose call raised in this cycle, or ""
    system_snapshot,    \* optional snapshot of phase 1
    decision,           \* optional Decision of phase 2
    execution_result,   \* optional ExecutionResult of phase 3
    post_snapshot,      \* optional post-adaptation snapshot
    reflection,         \* optional Reflection of phase 4
    csv_rows,           \* statuses of the rows appended to AWARE_LOG_FILE
    cycle_log,          \* status of every cycle_result returned so far
    \* ActAgent
    k8s_ok,             \* self.v1_deployments is not None
    act_actions,        \* the actions act() iterates over
    act_index,          \* index of the action being executed
    results,            \* per-action results gathered so far
    attempt,            \* loop variable of _retry_deployment_patch
    fetched,            \* optional local deployment object of the retry loop
    patch_log,          \* per attempt of this resize: its number, what the
                        \* control plane held, what was got, the body built
    cp_answers,         \* the control plane's answers during this resize
    \* cluster control plane
    replicas,           \* spec.replicas of the deployment
    deployment,         \* [spec, version]: resources and resourceVersion
    restarts,           \* rollout restarts triggered
    ext_writes,         \* writes made by other clients so far
    ext_budget,         \* how many such writes are explored
    \* ReflectAgent
    reflection_history, \* self.reflection_history
    reflect_inputs,     \* the success flag of the ExecutionResult of each entry
    \* EnrichAgent
    learning_cycles,    \* self.learning_cycles
    pattern_counts,     \* self.pattern_counts
    pattern_successes,  \* self.pattern_successes
    q_table,            \* self.q_table
    kb,                 \* self.knowledge_base: [patterns, statistics]
    kb_disk,            \* optional content of the knowledge base file
    ks_at_save,         \* optional KnowledgeStore in memory at the last
                        \* complete write of that file
    save_attempts,      \* how many times _save_knowledge_base was called
    enrich_calls,       \* how many enrich() calls went past their first
                        \* lines, in all processes so far
    observed,           \* the (state key, action key) pairs those calls had
    \* main()
    main_pc,            \* "loop", or how the process ended
    exports,            \* the export_knowledge calls made so far
    interrupted_at,     \* pc at the moment the process ended, or ""
    starts,             \* how many times main() has been started
    \* values at the start of the current cycle
    ks_at_start,
    cluster_at_start,
    post_answer         \* what the post-adaptation assess() of the cycle
                        \* returned: "not_called", "no_snapshot", "snapshot"

ctl_vars == <<pc, status, cycle_log, raised>>
data_vars == <<system_snapshot, decision, execution_result, post_snapshot,
               reflection>>
orch_vars == <<cycle_count, calls, csv_rows, ctl_vars, data_vars>>
loop_vars == <<act_index, results, attempt, fetched>>
act_vars == <<k8s_ok, act_actions, patch_log, cp_answers, loop_vars>>
cluster_vars == <<replicas, deployment, restarts, ext_writes, ext_budget>>
reflect_vars == <<reflection_history, reflect_inputs>>
enrich_vars == <<learning_cycles, pattern_counts, pattern_successes, q_table,
                 kb, kb_disk, ks_at_save, save_attempts, enrich_calls,
                 observed>>
main_vars == <<main_pc, exports, interrupted_at, starts>>
ghost_vars == <<ks_at_start, cluster_at_start, post_answer>>
vars == <<orch_vars, act_vars, cluster_vars, reflect_vars, enrich_vars,
          ghost_vars, main_vars>>

KnowledgeStore ==
    [learning_cycles |-> learning_cycles, q_table |-> q_table,
     pattern_counts |-> pattern_counts,
     pattern_successes |-> pattern_successes, kb |-> kb]

Cluster ==
    [replicas |-> replicas, deployment |-> deployment, restarts |-> restarts]

EmptyKnowledgeBase == [patterns |-> EmptyMap, statistics |-> None]

\* What every start has in common: no knowledge base file, nothing learnt,
\* no reflection yet, no resize in progress.
InitAgents ==
    /\ csv_rows = << >>
    /\ cycle_log = << >>
    /\ raised = ""
    /\ attempt = 0
    /\ fetched = None
    /\ patch_log = << >>
    /\ cp_answers = << >>
    /\ restarts = 0
    /\ ext_writes = 0
    /\ reflection_history = << >>
    /\ reflect_inputs = << >>
    /\ learning_cycles = 0
    /\ pattern_counts = EmptyMap
    /\ pattern_successes = EmptyMap
    /\ q_table = EmptyMap
    /\ kb = EmptyKnowledgeBase
    /\ kb_disk = None
    /\ ks_at_save = None
    /\ save_attempts = 0
    /\ post_answer = "not_called"
    /\ enrich_calls = 0
    /\ observed = {}
    /\ main_pc = "loop"
    /\ exports = << >>
    /\ interrupted_at = ""
    /\ starts = 1
    /\ ks_at_start = KnowledgeStore

\* The state after AWAREOrchestrator.__init__, in front of some cluster.
InitIdle ==
    /\ InitAgents
    /\ cycle_count = 0
    /\ pc = "idle"
    /\ status = "none"
    /\ calls = << >>
    /\ system_snapshot = None
    /\ decision = None
    /\ execution_result = None
    /\ post_snapshot = None
    /\ reflection = None
    /\ k8s_ok \in BOOLEAN
    /\ act_actions = << >>
    /\ act_index = 0
    /\ results = << >>
    /\ replicas = MAX_PODS - 1
    /\ deployment = [spec |-> ("requests" :> 200 @@ "limits" :> 400),
                     version |-> 1]
    /\ cluster_at_start = Cluster

Init ==
    /\ InitIdle
    /\ ext_budget = MaxCycleExternalWrites

\* ------------------------------------------------ AWAREOrchestrator steps
\* The stage order with the post-adaptation assessment left out.
after_skips_reassess(stage) ==
    CASE stage = "assess" -> "weigh"
      [] stage = "weigh" -> "act"
      [] stage = "act" -> "reflect"
      [] stage = "post_assess" -> "reflect"
      [] stage = "reflect" -> "enrich"
      [] OTHER -> "complete"

\* The stage run_aware_cycle goes to when a stage has returned.
after(stage) ==
    CASE stage = "assess" -> "weigh"
      [] stage = "weigh" -> "act"
      [] stage = "act" -> "post_assess"
      [] stage = "post_assess" -> "reflect"
      [] stage = "reflect" -> "enrich"
      [] OTHER -> "complete"

\* A cycle that ends in aborted or error takes the loop down with it.
FinishEndsLoopOnFailure(st) ==
    /\ status' = st
    /\ pc' = IF st \in {"aborted", "error"} THEN "exited" ELSE "idle"
    /\ cycle_log' = Append(cycle_log, st)

\* return cycle_result (through the finally block) with the given status.
Finish(st) ==
    /\ status' = st
    /\ pc' = "idle"
    /\ cycle_log' = Append(cycle_log, st)

\* A stage call raises and nothing catches it: the call of run_aware_cycle
\* ends without a status and without a result.
RaiseUncaught(stage) ==
    /\ status' = status
    /\ pc' = "idle"
    /\ cycle_log' = cycle_log
    /\ raised' = stage

\* A stage call raises: except Exception sets status "error", then the
\* finally block runs and cycle_result is returned.
Raise(stage) ==
    /\ Finish("error")
    /\ raised' = stage

\* A stage call returns and the cycle goes on.
Continue(stage) ==
    /\ pc' = after(stage)
    /\ UNCHANGED <<status, cycle_log, raised>>

\* _log_to_csv: appends one row, unless opening or writing the file fails
\* (the exception is caught and only logged).
log_to_csv(st) ==
    \E io_ok \in BOOLEAN :
        csv_rows' = IF io_ok THEN Append(csv_rows, st) ELSE csv_rows

\* Entry of run_aware_cycle up to the try block.
StartCycle ==
    /\ pc = "idle"
    /\ cycle_count < MaxCycles
    /\ cycle_count' = cycle_count + 1
    /\ pc' = "assess"
    /\ status' = "running"
    /\ calls' = << >>
    /\ raised' = ""
    /\ system_snapshot' = None
    /\ decision' = None
    /\ execution_result' = None
    /\ post_snapshot' = None
    /\ reflection' = None
    /\ ks_at_start' = KnowledgeStore
    /\ cluster_at_start' = Cluster
    /\ post_answer' = "not_called"
    /\ UNCHANGED <<csv_rows, cycle_log, act_vars, cluster_vars, reflect_vars,
                   enrich_vars, main_vars>>

\* Phase 1 without the "if not system_snapshot" check: the cycle goes on to
\* weigh with no snapshot.
AssessNoAbort ==
    /\ pc = "assess"
    /\ calls' = Append(calls, "assess")
    /\ \/ Raise("assess") /\ UNCHANGED system_snapshot
       \/ Continue("assess") /\ UNCHANGED system_snapshot
       \/ /\ \E s \in Snapshots : system_snapshot' = Some(s)
          /\ Continue("assess")
    /\ UNCHANGED <<cycle_count, csv_rows, decision, execution_result,
                   post_snapshot, reflection, act_vars, cluster_vars,
                   reflect_vars, enrich_vars, ghost_vars, main_vars>>

\* Phase 1: assess() raises, returns None (abort) or returns a snapshot.
Assess ==
    /\ pc = "assess"
    /\ calls' = Append(calls, "assess")
    /\ \/ Raise("assess") /\ UNCHANGED system_snapshot
       \/ Finish("aborted") /\ UNCHANGED <<raised, system_snapshot>>
       \/ /\ \E s \in Snapshots : system_snapshot' = Some(s)
          /\ Continue("assess")
    /\ UNCHANGED <<cycle_count, csv_rows, decision, execution_result,
                   post_snapshot, reflection, act_vars, cluster_vars,
                   reflect_vars, enrich_vars, ghost_vars, main_vars>>

\* Phase 2 without the "if not decision.get('actions')" check: act() is
\* called with an empty action list too.
WeighAlwaysActs ==
    /\ pc = "weigh"
    /\ calls' = Append(calls, "weigh")
    /\ \/ Raise("weigh") /\ UNCHANGED decision
       \/ /\ decision' = Some(weigh(Val(system_snapshot), kb))
          /\ Continue("weigh")
    /\ UNCHANGED <<cycle_count, csv_rows, system_snapshot, execution_result,
                   post_snapshot, reflection, act_vars, cluster_vars,
                   reflect_vars, enrich_vars, ghost_vars, main_vars>>

\* Phase 2: weigh() raises or returns a Decision; an empty action list ends
\* the cycle as stable.
Weigh ==
    /\ pc = "weigh"
    /\ calls' = Append(calls, "weigh")
    /\ \/ Raise("weigh") /\ UNCHANGED decision
       \/ /\ decision' = Some(weigh(Val(system_snapshot), kb))
          /\ pc' = IF Val(decision').actions = << >> THEN "stable"
                   ELSE after("weigh")
          /\ UNCHANGED <<status, cycle_log, raised>>
    /\ UNCHANGED <<cycle_count, csv_rows, system_snapshot, execution_result,
                   post_snapshot, reflection, act_vars, cluster_vars,
                   reflect_vars, enrich_vars, ghost_vars, main_vars>>

\* The "No actions needed" branch: status stable, one CSV row, return.
Stable ==
    /\ pc = "stable"
    /\ Finish("stable")
    /\ log_to_csv("stable")
    /\ UNCHANGED <<cycle_count, calls, raised, data_vars, act_vars,
                   cluster_vars, reflect_vars, enrich_vars, ghost_vars, main_vars>>

\* Phase 3, entry of act(): the action list is read and the loop starts.
ActBegin ==
    /\ pc = "act"
    /\ calls' = Append(calls, "act")
    /\ \/ Raise("act") /\ UNCHANGED <<act_actions, act_index, results>>
       \/ /\ act_actions' = Val(decision).actions
          /\ act_index' = 1
          /\ results' = << >>
          /\ pc' = "act_loop"
          /\ UNCHANGED <<status, cycle_log, raised>>
    /\ UNCHANGED <<cycle_count, csv_rows, data_vars, k8s_ok, attempt, fetched,
                   patch_log, cp_answers, cluster_vars, reflect_vars,
                   enrich_vars, ghost_vars, main_vars>>

\* ------------------------------------------------------- ActAgent steps
\* One action's result is appended and the loop of act() moves on.
\* act()'s loop leaving at the first failed result.
NextActionBreaksOnFailure(result) ==
    /\ results' = Append(results, result)
    /\ act_index' = IF result.success THEN act_index + 1
                    ELSE Len(act_actions) + 1
    /\ pc' = "act_loop"

NextAction(result) ==
    /\ results' = Append(results, result)
    /\ act_index' = act_index + 1
    /\ pc' = "act_loop"

\* _horizontal_scale: read the replica count, clamp, write it back.  Either
\* "oc" call may fail or time out; that is reported, never retried.
horizontal_scale(action) ==
    \E get_ok \in BOOLEAN, scale_ok \in BOOLEAN :
        LET new_count == new_replica_count(replicas, action.operation,
                                           action.amount)
        IN  /\ replicas' = IF get_ok /\ scale_ok THEN new_count ELSE replicas
            /\ NextAction(
                  IF get_ok /\ scale_ok
                     THEN ScaleResult(replicas, new_count)
                     ELSE Result("horizontal", FALSE,
                                 IF ~get_ok
                                    THEN "Failed to get current replicas"
                                    ELSE "Failed to scale"))
            /\ UNCHANGED <<deployment, restarts, ext_writes, ext_budget,
                           attempt, fetched, patch_log, cp_answers>>

\* _restart_service: one rollout restart, acknowledged or not.
restart_service(action) ==
    \E ok \in BOOLEAN :
        /\ restarts' = IF ok THEN restarts + 1 ELSE restarts
        /\ NextAction(Result("restart", ok,
                             IF ok THEN "" ELSE "Failed to restart"))
        /\ UNCHANGED <<replicas, deployment, ext_writes, ext_budget, attempt,
                       fetched, patch_log, cp_answers>>

\* _vertical_scale up to the first attempt of _retry_deployment_patch.
vertical_scale(action) ==
    IF ~k8s_ok
        THEN /\ NextAction(Result("vertical", FALSE,
                                  "Kubernetes client not initialized"))
             /\ UNCHANGED <<cluster_vars, attempt, fetched, patch_log,
                            cp_answers>>
        ELSE /\ attempt' = 0
             /\ fetched' = None
             /\ patch_log' = << >>
             /\ cp_answers' = << >>
             /\ pc' = "patch_get"
             /\ UNCHANGED <<results, act_index, cluster_vars>>

\* _execute_action: dispatch on the action's name.
execute_action(action) ==
    IF action.name = "horizontal" THEN horizontal_scale(action)
    ELSE IF action.name = "vertical" THEN vertical_scale(action)
    ELSE IF action.name = "restart" THEN restart_service(action)
    ELSE /\ NextAction(Result(action.name, FALSE, "Unknown action type"))
         /\ UNCHANGED <<cluster_vars, attempt, fetched, patch_log, cp_answers>>

\* One iteration of the loop of act().
ExecuteAction ==
    /\ pc = "act_loop"
    /\ act_index <= Len(act_actions)
    /\ execute_action(act_actions[act_index])
    /\ UNCHANGED <<cycle_count, calls, csv_rows, status, cycle_log, raised,
                   data_vars, k8s_ok, act_actions, reflect_vars, enrich_vars,
                   ghost_vars, main_vars>>

\* _retry_deployment_patch returns; _vertical_scale turns it into a result.
PatchReturn(success) ==
    /\ NextAction(Result("vertical", success,
            IF success THEN ""
            ELSE "Failed to update deployment after retries"))
    /\ fetched' = None

\* The loop condition letting one attempt too many through.
loop_continues_off_by_one(a) == a <= MAX_RETRIES

\* The loop condition of "for attempt in range(max_retries)".
loop_continues(a) == a < MAX_RETRIES

\* The deployment got once, before the loop, and reused (already modified,
\* with its old resourceVersion) by every later attempt.
get_deployment_once ==
    IF IsNone(fetched) THEN deployment
    ELSE [spec |-> Val(fetched).spec, version |-> Val(fetched).version]

\* The object an attempt works on: what v1_deployments.get returns, the
\* deployment as the control plane holds it at that moment.
get_deployment == deployment

\* Every exception handled like a ConflictError: the loop goes round again.
after_error_retries ==
    /\ attempt' = attempt + 1
    /\ pc' = "patch_get"
    /\ UNCHANGED <<results, act_index, fetched>>

\* except Exception: log and return False.
after_error ==
    /\ PatchReturn(FALSE)
    /\ UNCHANGED attempt

\* except ConflictError: log, sleep, and go round the loop while attempts
\* remain; after the last one "Exceeded retries", return False.
after_conflict ==
    /\ attempt' = attempt + 1
    /\ IF loop_continues(attempt + 1)
          THEN /\ pc' = "patch_get"
               /\ UNCHANGED <<results, act_index, fetched>>
          ELSE PatchReturn(FALSE)

\* Attempt, first half: get the deployment and apply modify_fn to it.
PatchGet ==
    /\ pc = "patch_get"
    /\ \/ /\ cp_answers' = Append(cp_answers, "get_error")
          /\ after_error
          /\ UNCHANGED patch_log
       \/ LET got == get_deployment
              body == modify_resources(got.spec, act_actions[act_index])
          IN  /\ cp_answers' = Append(cp_answers, "got")
              /\ fetched' = Some([spec |-> body, version |-> got.version])
              /\ patch_log' = Append(patch_log,
                     [attempt |-> attempt, live |-> deployment.spec,
                      got |-> got.spec, body |-> body])
              /\ pc' = "patch_write"
              /\ UNCHANGED <<results, act_index, attempt>>
    /\ UNCHANGED <<cycle_count, calls, csv_rows, status, cycle_log, raised,
                   data_vars, k8s_ok, act_actions, cluster_vars, reflect_vars,
                   enrich_vars, ghost_vars, main_vars>>

\* Attempt, second half: v1_deployments.patch with the modified object.  The
\* control plane accepts the body when its resourceVersion is current,
\* answers a conflict when it is stale, or fails in another way.
PatchWrite ==
    /\ pc = "patch_write"
    /\ \/ /\ cp_answers' = Append(cp_answers, "patch_error")
          /\ after_error
          /\ UNCHANGED deployment
       \/ /\ Val(fetched).version = deployment.version
          /\ cp_answers' = Append(cp_answers, "patched")
          /\ deployment' = [spec |-> Val(fetched).spec,
                            version |-> deployment.version + 1]
          /\ PatchReturn(TRUE)
          /\ UNCHANGED attempt
       \/ /\ Val(fetched).version # deployment.version
          /\ cp_answers' = Append(cp_answers, "conflict")
          /\ after_conflict
          /\ UNCHANGED deployment
    /\ UNCHANGED <<cycle_count, calls, csv_rows, status, cycle_log, raised,
                   data_vars, k8s_ok, act_actions, patch_log, replicas,
                   restarts, ext_writes, ext_budget, reflect_vars, enrich_vars,
                   ghost_vars, main_vars>>

\* Another client of the control plane updates the deployment while a
\* resize is in progress; the resourceVersion moves on.
ExternalWrite ==
    /\ pc \in {"patch_get", "patch_write"}
    /\ ext_writes < ext_budget
    /\ \E s \in ExternalSpecs \ {deployment.spec} :
          deployment' = [spec |-> s, version |-> deployment.version + 1]
    /\ ext_writes' = ext_writes + 1
    /\ UNCHANGED <<orch_vars, act_vars, replicas, restarts, ext_budget,
                   reflect_vars, enrich_vars, ghost_vars, main_vars>>

\* End of act(): the ExecutionResult is built and returned; the locals of
\* act() are gone.
ActReturn ==
    /\ pc = "act_loop"
    /\ act_index > Len(act_actions)
    /\ execution_result' =
          Some(make_execution_result(act_actions, results))
    /\ Continue("act")
    /\ act_actions' = << >>
    /\ act_index' = 0
    /\ results' = << >>
    /\ attempt' = 0
    /\ patch_log' = << >>
    /\ cp_answers' = << >>
    /\ UNCHANGED <<cycle_count, calls, csv_rows, system_snapshot, decision,
                   post_snapshot, reflection, k8s_ok, fetched, cluster_vars,
                   reflect_vars, enrich_vars, ghost_vars, main_vars>>

\* --------------------------------------- stabilize, reassess, learn
\* A fallback on the snapshot of a recovered system.
post_fallback_recovered(pre) == Some(SnapRecovered)

\* "post_snapshot = system_snapshot  # Use pre-state as fallback"
post_fallback(pre) == pre

\* After the fixed wait: assess() again; without a post snapshot the pre
\* snapshot stands in for it.
PostAssess ==
    /\ pc = "post_assess"
    /\ calls' = Append(calls, "assess")
    /\ \/ Raise("post_assess") /\ UNCHANGED <<post_snapshot, post_answer>>
       \/ /\ \/ /\ post_answer' = "no_snapshot"
                /\ post_snapshot' = post_fallback(system_snapshot)
             \/ /\ post_answer' = "snapshot"
                /\ \E s \in PostSnapshots : post_snapshot' = Some(s)
          /\ Continue("post_assess")
    /\ UNCHANGED <<cycle_count, csv_rows, system_snapshot, decision,
                   execution_result, reflection, act_vars, cluster_vars,
                   reflect_vars, enrich_vars, ks_at_start, cluster_at_start,
                   main_vars>>

\* Phase 4: reflect() raises, or builds a Reflection and appends it to the
\* reflection history.
Reflect ==
    /\ pc = "reflect"
    /\ calls' = Append(calls, "reflect")
    /\ \/ Raise("reflect") /\ UNCHANGED <<reflection, reflect_vars>>
       \/ LET r == reflect(Val(system_snapshot), Val(post_snapshot),
                           Val(execution_result).success)
          IN  /\ reflection' = Some(r)
              /\ reflection_history' = Append(reflection_history, r)
              /\ reflect_inputs' =
                    Append(reflect_inputs, Val(execution_result).success)
              /\ Continue("reflect")
    /\ UNCHANGED <<cycle_count, csv_rows, system_snapshot, decision,
                   execution_result, post_snapshot, act_vars, cluster_vars,
                   enrich_vars, ghost_vars, main_vars>>

\* _save_knowledge_base: the knowledge base dictionary is pickled to the
\* file, unless the write fails (caught and logged).
\* The knowledge base file holds a complete pickle of a knowledge base, or
\* what is left when open(..., 'wb') has truncated it and pickle.dump did not
\* finish.  pickle keeps the dictionary as it is: keys, numbers and nesting.
Pickled(k) == Some([complete |-> TRUE, data |-> k])

Truncated == Some([complete |-> FALSE, data |-> EmptyKnowledgeBase])

\* _load_knowledge_base: {} when the file is missing or cannot be unpickled.
load_knowledge_base(file) ==
    IF IsNone(file) \/ ~Val(file).complete THEN EmptyKnowledgeBase
    ELSE Val(file).data

\* _save_knowledge_base writing the pattern table without the statistics.
save_knowledge_base_patterns_only(store) ==
    \E outcome \in {"written", "not_opened", "not_finished"} :
        /\ kb_disk' = CASE outcome = "written" ->
                                Pickled([store.kb EXCEPT !.statistics = None])
                        [] outcome = "not_opened" -> kb_disk
                        [] outcome = "not_finished" -> Truncated
        /\ ks_at_save' = CASE outcome = "written" -> Some(store)
                           [] outcome = "not_opened" -> ks_at_save
                           [] outcome = "not_finished" -> None
        /\ save_attempts' = save_attempts + 1

\* _save_knowledge_base pickles self.knowledge_base and nothing else; an I/O
\* error on open or during the dump is caught and logged.  store is the
\* KnowledgeStore in memory at the call.
save_knowledge_base(store) ==
    \E outcome \in {"written", "not_opened", "not_finished"} :
        /\ kb_disk' = CASE outcome = "written" -> Pickled(store.kb)
                        [] outcome = "not_opened" -> kb_disk
                        [] outcome = "not_finished" -> Truncated
        /\ ks_at_save' = CASE outcome = "written" -> Some(store)
                           [] outcome = "not_opened" -> ks_at_save
                           [] outcome = "not_finished" -> None
        /\ save_attempts' = save_attempts + 1

\* enrich() saving at the N-th learning cycle only, not at every N-th.
enrich_saves_at_first_multiple_only(r, d, pre_state, post_state) ==
    LET success == r.success
        actions == d.actions
        health_delta == IF IsNone(r.health_delta) THEN 0
                        ELSE Val(r.health_delta)
        mined == mine_patterns(
                    [counts |-> pattern_counts,
                     successes |-> pattern_successes,
                     patterns |-> kb.patterns, learned |-> << >>],
                    pre_state, actions, success, health_delta, 1)
        new_q == update_rl_policies(q_table, pre_state, actions, post_state,
                    calculate_reward(health_delta, success), 1)
        new_kb == [patterns |-> mined.patterns,
                   statistics |-> update_statistics(kb.statistics, actions,
                                                    success)]
    IN  /\ pattern_counts' = mined.counts
        /\ pattern_successes' = mined.successes
        /\ q_table' = new_q
        /\ kb' = new_kb
        /\ enrich_calls' = enrich_calls + 1
        /\ observed' = observed \cup
                {<<get_state_key(pre_state), action_key_of(actions[i])>> :
                    i \in 1..Len(actions)}
        /\ IF learning_cycles + 1 = RL_UPDATE_FREQUENCY
              THEN save_knowledge_base(
                      [learning_cycles |-> learning_cycles + 1,
                       q_table |-> new_q, pattern_counts |-> mined.counts,
                       pattern_successes |-> mined.successes, kb |-> new_kb])
              ELSE UNCHANGED <<kb_disk, ks_at_save, save_attempts>>

\* The body of enrich() after the counter is incremented.
enrich(r, d, pre_state, post_state) ==
    LET success == r.success
        actions == d.actions
        health_delta == IF IsNone(r.health_delta) THEN 0
                        ELSE Val(r.health_delta)
        mined == mine_patterns(
                    [counts |-> pattern_counts,
                     successes |-> pattern_successes,
                     patterns |-> kb.patterns, learned |-> << >>],
                    pre_state, actions, success, health_delta, 1)
        new_q == update_rl_policies(q_table, pre_state, actions, post_state,
                    calculate_reward(health_delta, success), 1)
        new_kb == [patterns |-> mined.patterns,
                   statistics |-> update_statistics(kb.statistics, actions,
                                                    success)]
    IN  /\ pattern_counts' = mined.counts
        /\ pattern_successes' = mined.successes
        /\ q_table' = new_q
        /\ kb' = new_kb
        /\ enrich_calls' = enrich_calls + 1
        /\ observed' = observed \cup
                {<<get_state_key(pre_state), action_key_of(actions[i])>> :
                    i \in 1..Len(actions)}
        /\ IF (learning_cycles + 1) % RL_UPDATE_FREQUENCY = 0
              THEN save_knowledge_base(
                      [learning_cycles |-> learning_cycles + 1,
                       q_table |-> new_q, pattern_counts |-> mined.counts,
                       pattern_successes |-> mined.successes, kb |-> new_kb])
              ELSE UNCHANGED <<kb_disk, ks_at_save, save_attempts>>

\* Phase 5: enrich() raises on entry, raises while mining patterns (the
\* counter is already incremented), or learns from the cycle and returns.
Enrich ==
    /\ pc = "enrich"
    /\ calls' = Append(calls, "enrich")
    /\ \/ Raise("enrich") /\ UNCHANGED enrich_vars
       \/ /\ Raise("enrich")
          /\ learning_cycles' = learning_cycles + 1
          /\ UNCHANGED <<pattern_counts, pattern_successes, q_table, kb,
                         kb_disk, ks_at_save, save_attempts,
                         enrich_calls, observed>>
       \/ /\ learning_cycles' = learning_cycles + 1
          /\ enrich(Val(reflection), Val(decision), Val(system_snapshot),
                    Val(post_snapshot))
          /\ Continue("enrich")
    /\ UNCHANGED <<cycle_count, csv_rows, data_vars, act_vars, cluster_vars,
                   reflect_vars, ghost_vars, main_vars>>

\* "Overall cycle status": completed, one CSV row, return.
Complete ==
    /\ pc = "complete"
    /\ Finish("completed")
    /\ log_to_csv("completed")
    /\ UNCHANGED <<cycle_count, calls, raised, data_vars, act_vars,
                   cluster_vars, reflect_vars, enrich_vars, ghost_vars, main_vars>>

Next ==
    \/ StartCycle
    \/ Assess
    \/ Weigh
    \/ Stable
    \/ ActBegin
    \/ ExecuteAction
    \/ PatchGet
    \/ PatchWrite
    \/ ExternalWrite
    \/ ActReturn
    \/ PostAssess
    \/ Reflect
    \/ Enrich
    \/ Complete

Spec == Init /\ [][Next]_vars

\* ----------------------------------------------- one resize on its own
\* act() is about to execute the resize action of a Decision: the cycle has
\* assessed a snapshot with a cost rule firing, weighed it and entered act().
InitPatch ==
    /\ InitAgents
    /\ cycle_count = 1
    /\ pc = "act_loop"
    /\ status = "running"
    /\ calls = <<"assess", "weigh", "act">>
    /\ system_snapshot \in {Some(SnapCheap), Some(SnapCostly)}
    /\ decision = Some(weigh(Val(system_snapshot), kb))
    /\ execution_result = None
    /\ post_snapshot = None
    /\ reflection = None
    /\ k8s_ok \in BOOLEAN
    /\ act_actions = Val(decision).actions
    /\ act_index = 1
    /\ results = << >>
    /\ replicas = MAX_PODS - 1
    /\ deployment \in [spec : DeploymentSpecs, version : {1}]
    /\ ext_budget = MaxExternalWrites
    /\ cluster_at_start = Cluster

NextPatch ==
    \/ ExecuteAction
    \/ PatchGet
    \/ PatchWrite
    \/ ExternalWrite
    \/ ActReturn

SpecPatch == InitPatch /\ [][NextPatch]_vars

\* ------------------------------------------------- act() on any Decision
\* _execute_action raises and the "except Exception" of act()'s loop turns
\* the exception into a failed result of that action.
ExecuteActionRaises ==
    /\ pc = "act_loop"
    /\ act_index <= Len(act_actions)
    /\ NextAction(Result(act_actions[act_index].name, FALSE, "exception"))
    /\ UNCHANGED <<cycle_count, calls, csv_rows, status, cycle_log, raised,
                   data_vars, k8s_ok, act_actions, attempt, fetched,
                   patch_log, cp_answers, cluster_vars, reflect_vars,
                   enrich_vars, ghost_vars, main_vars>>

\* v1_deployments.get or .patch never answers.  Neither call is given a
\* timeout, so _retry_deployment_patch stays inside it.
PatchHang ==
    /\ pc \in {"patch_get", "patch_write"}
    /\ cp_answers' = Append(cp_answers, "hang")
    /\ pc' = "blocked"
    /\ UNCHANGED <<cycle_count, calls, csv_rows, status, cycle_log, raised,
                   data_vars, k8s_ok, act_actions, patch_log, loop_vars,
                   cluster_vars, reflect_vars, enrich_vars, ghost_vars, main_vars>>

\* The actions a Decision handed to act() may hold: the six the rules of
\* WeighAgent build, and one of a kind _execute_action does not know.
ActionKinds ==
    { Candidate("horizontal", "increase", 1, 0, 1),
      Candidate("horizontal", "increase", 2, 0, 0),
      Candidate("horizontal", "decrease", 1, 0, 3),
      Candidate("vertical", "increase", 0, 150, 2),
      Candidate("vertical", "decrease", 0, 75, 3),
      Candidate("restart", "", 0, 0, 2),
      Candidate("migrate", "", 0, 0, 3) }

ActionLists ==
    UNION { [1..n -> ActionKinds] : n \in 0..MaxActions }

\* act() is entered with some Decision, in front of a deployment whose
\* replica count is whatever the cluster's other clients left.
InitAct ==
    /\ InitAgents
    /\ cycle_count = 1
    /\ pc = "act_loop"
    /\ status = "running"
    /\ calls = <<"assess", "weigh", "act">>
    /\ system_snapshot = Some(SnapCritical)
    /\ \E acts \in ActionLists :
          /\ decision = Some([actions |-> acts,
                              candidates_evaluated |-> Len(acts),
                              evaluated |-> acts])
          /\ act_actions = acts
    /\ execution_result = None
    /\ post_snapshot = None
    /\ reflection = None
    /\ k8s_ok \in BOOLEAN
    /\ act_index = 1
    /\ results = << >>
    /\ replicas \in 0..MaxReplicasRead
    /\ deployment = [spec |-> ("requests" :> 200 @@ "limits" :> 400),
                     version |-> 1]
    /\ ext_budget = MaxCycleExternalWrites
    /\ cluster_at_start = Cluster

NextAct ==
    \/ ExecuteAction
    \/ ExecuteActionRaises
    \/ PatchGet
    \/ PatchWrite
    \/ PatchHang
    \/ ExternalWrite
    \/ ActReturn

SpecAct == InitAct /\ [][NextAct]_vars

\* ------------------------------------------------- weigh() on any snapshot
\* What _check_slo_violations and _compute_health_score allow a snapshot to
\* say: more than 50 errors in the window is a severity-1 violation (10
\* points), a latency above 500 ms a severity-4 one (2.5 points), any other
\* violation of severity <= 2 costs at least 5 points and every metric
\* carrying anomalies at least half a point.  Twice the health score is
\* compared, to stay with integers.
errors_in_window(s) == (s.error_rate * s.throughput * 60) \div 10000

health_ceiling_doubled(s) ==
    200 - 10 * s.critical - s.anomalies
        - (IF s.latency > 500 THEN 5 ELSE 0)
        - (IF errors_in_window(s) > 50 THEN 10 ELSE 0)

assessable(s) ==
    /\ 2 * s.health <= health_ceiling_doubled(s)
    /\ errors_in_window(s) > 50 => s.critical >= 1

\* Values on either side of, and on, every threshold the rules compare with.
WeighSnapshots ==
    { s \in [error_rate : {100, 500, 800}, latency : {400, 500, 1200},
             throughput : {5, 10}, cost : {30, 50, 105, 120},
             critical : {0, 1}, anomalies : {0, 5, 6},
             health : {0, 10, 40, 70, 95, 100}] : assessable(s) }

\* run_aware_cycle has a snapshot and is about to call weigh().
InitWeigh ==
    /\ InitAgents
    /\ cycle_count = 1
    /\ pc = "weigh"
    /\ status = "running"
    /\ calls = <<"assess">>
    /\ system_snapshot \in { Some(s) : s \in WeighSnapshots }
    /\ decision = None
    /\ execution_result = None
    /\ post_snapshot = None
    /\ reflection = None
    /\ k8s_ok = TRUE
    /\ act_actions = << >>
    /\ act_index = 0
    /\ results = << >>
    /\ replicas = MAX_PODS - 1
    /\ deployment = [spec |-> ("requests" :> 200 @@ "limits" :> 400),
                     version |-> 1]
    /\ ext_budget = MaxCycleExternalWrites
    /\ cluster_at_start = Cluster

NextWeigh ==
    \/ Weigh
    \/ Stable
    \/ ActBegin

SpecWeigh == InitWeigh /\ [][NextWeigh]_vars

\* ------------------------------------------- reflect() on any outcome
\* The snapshot before the adaptation: errors above the threshold, at one
\* of two health scores, or no errors at all and a latency above the
\* threshold.
ReflectPreSnapshots ==
    { Snap(800, 400, 10, 80, 0, 0, 60), Snap(800, 400, 10, 80, 0, 0, 10),
      Snap(0, 1200, 10, 80, 0, 0, 60) }

\* The snapshot after it: every metric better, the same, or worse, by more
\* or by less than the 5% that counts, and health scores on either side of
\* and on the two thresholds of _evaluate_success.
ReflectPostSnapshots ==
    { s \in [error_rate : {300, 800, 900}, latency : {300, 400, 420, 450},
             throughput : {8, 10, 20}, cost : {60, 80, 90},
             critical : {0, 1}, anomalies : {0},
             health : {0, 49, 50, 60, 75, 90, 91}] : assessable(s) }

\* run_aware_cycle has the pre snapshot, the Decision for it, the
\* ExecutionResult of its scale-out and the post snapshot, and is about to
\* call reflect().
InitReflect ==
    /\ InitAgents
    /\ cycle_count = 1
    /\ pc = "reflect"
    /\ status = "running"
    /\ calls = <<"assess", "weigh", "act", "assess">>
    /\ system_snapshot \in { Some(s) : s \in ReflectPreSnapshots }
    /\ decision = Some(weigh(Val(system_snapshot), kb))
    /\ post_snapshot \in { Some(s) : s \in ReflectPostSnapshots }
    /\ reflection = None
    /\ k8s_ok = TRUE
    /\ act_actions = << >>
    /\ act_index = 0
    /\ \E scaled \in BOOLEAN :
          /\ execution_result = Some(make_execution_result(
                Val(decision).actions,
                << IF scaled THEN ScaleResult(MAX_PODS - 1, MAX_PODS)
                   ELSE Result("horizontal", FALSE, "Failed to scale") >>))
          /\ replicas = IF scaled THEN MAX_PODS ELSE MAX_PODS - 1
    /\ results = << >>
    /\ deployment = [spec |-> ("requests" :> 200 @@ "limits" :> 400),
                     version |-> 1]
    /\ ext_budget = MaxCycleExternalWrites
    /\ cluster_at_start = [Cluster EXCEPT !.replicas = MAX_PODS - 1]

NextReflect == Reflect

SpecReflect == InitReflect /\ [][NextReflect]_vars

\* ------------------------------------------- the EnrichAgent on its own
\* The Decisions enrich() is handed: no action, one, or two.
EnrichActionLists ==
    { << >>,
      << Candidate("horizontal", "increase", 1, 0, 1) >>,
      << Candidate("vertical", "increase", 0, 150, 2),
         Candidate("restart", "", 0, 0, 2) >> }

\* What one call of enrich() is given: the snapshots before and after the
\* adaptation, whether act() succeeded, and the Decision's actions.
EnrichInputs ==
    [pre : {SnapCritical, SnapNoisy}, post : PostSnapshots, ok : BOOLEAN,
     actions : EnrichActionLists]

\* enrich(reflection, decision, pre_state, post_state) called on the
\* orchestrator's EnrichAgent with the Reflection reflect() gives for in.
enrich_call(in) ==
    /\ system_snapshot' = Some(in.pre)
    /\ post_snapshot' = Some(in.post)
    /\ decision' = Some([actions |-> in.actions,
                         candidates_evaluated |-> Len(in.actions),
                         evaluated |-> in.actions])
    /\ reflection' = Some(reflect(in.pre, in.post, in.ok))
    /\ learning_cycles' = learning_cycles + 1
    /\ enrich(Val(reflection'), Val(decision'), in.pre, in.post)
    /\ ks_at_start' = KnowledgeStore
    /\ UNCHANGED <<cycle_count, calls, csv_rows, ctl_vars, execution_result,
                   act_vars, cluster_vars, reflect_vars, cluster_at_start,
                   post_answer,
                   main_vars>>

EnrichCall ==
    /\ pc = "idle"
    /\ enrich_calls < MaxEnrichCalls
    /\ \E in \in EnrichInputs : enrich_call(in)

NextEnrich == EnrichCall

\* The orchestrator and its agents are constructed and no cycle is running.
InitEnrich ==
    /\ Init
    /\ k8s_ok

SpecEnrich == InitEnrich /\ [][NextEnrich]_vars

\* ------------------------------------------------- the process and its end
\* export_knowledge: the JSON export of the counters, the pattern table and
\* the statistics; an I/O error is caught and logged.
export_knowledge(file) ==
    \E io_ok \in BOOLEAN :
        exports' = Append(exports,
            [file |-> file, written |-> io_ok,
             learning_cycles |-> learning_cycles,
             q_table_size |-> Cardinality(DOMAIN q_table),
             patterns |-> kb.patterns, statistics |-> kb.statistics])

\* KeyboardInterrupt is raised in the main thread, inside a cycle or between
\* two: it is no Exception, so run_aware_cycle's handler lets it pass and
\* only the finally block (two log lines) runs; main() exports and returns.
Interrupt ==
    /\ main_pc = "loop"
    /\ export_knowledge("knowledge_export_final.json")
    /\ main_pc' = "stopped"
    /\ interrupted_at' = pc
    /\ pc' = "exited"
    /\ UNCHANGED <<cycle_count, calls, csv_rows, status, cycle_log, raised,
                   data_vars, act_vars, cluster_vars, reflect_vars,
                   enrich_vars, ghost_vars, starts>>

\* The process is killed or the machine stops: no handler runs.
Kill ==
    /\ main_pc = "loop"
    /\ main_pc' = "killed"
    /\ interrupted_at' = pc
    /\ pc' = "exited"
    /\ UNCHANGED <<cycle_count, calls, csv_rows, status, cycle_log, raised,
                   data_vars, act_vars, cluster_vars, reflect_vars,
                   enrich_vars, ghost_vars, exports, starts>>

\* main() is started again: a new orchestrator with new agents; the
\* EnrichAgent loads the knowledge base file and starts its counters, its
\* pattern counts and its value table from nothing.
NewProcess ==
    /\ main_pc # "loop"
    /\ starts < MaxStarts
    /\ starts' = starts + 1
    /\ main_pc' = "loop"
    /\ interrupted_at' = ""
    /\ cycle_count' = 0
    /\ pc' = "idle"
    /\ status' = "none"
    /\ calls' = << >>
    /\ raised' = ""
    /\ system_snapshot' = None
    /\ decision' = None
    /\ execution_result' = None
    /\ post_snapshot' = None
    /\ reflection' = None
    /\ act_actions' = << >>
    /\ act_index' = 0
    /\ results' = << >>
    /\ attempt' = 0
    /\ fetched' = None
    /\ patch_log' = << >>
    /\ cp_answers' = << >>
    /\ reflection_history' = << >>
    /\ reflect_inputs' = << >>
    /\ learning_cycles' = 0
    /\ pattern_counts' = EmptyMap
    /\ pattern_successes' = EmptyMap
    /\ q_table' = EmptyMap
    /\ kb' = load_knowledge_base(kb_disk)
    /\ ks_at_start' = [learning_cycles |-> 0, q_table |-> EmptyMap,
                       pattern_counts |-> EmptyMap,
                       pattern_successes |-> EmptyMap, kb |-> kb']
    /\ cluster_at_start' = Cluster
    /\ post_answer' = "not_called"
    /\ UNCHANGED <<csv_rows, cycle_log, k8s_ok, cluster_vars, kb_disk,
                   ks_at_save, save_attempts, enrich_calls, observed,
                   exports>>

\* The cycles of one service in a steady situation: the adaptation works
\* or act() fails.
SaveInputs ==
    { in \in EnrichInputs :
        /\ in.pre = SnapCritical
        /\ in.actions = << Candidate("horizontal", "increase", 1, 0, 1) >>
        /\ \/ in.post = SnapRecovered /\ in.ok
           \/ in.post = SnapCritical /\ ~in.ok }

EnrichRepeat ==
    /\ pc = "idle"
    /\ enrich_calls < MaxSaveCalls
    /\ \E in \in SaveInputs : enrich_call(in)

NextPersist ==
    \/ EnrichRepeat
    \/ Interrupt
    \/ Kill
    \/ NewProcess

SpecPersist == InitEnrich /\ [][NextPersist]_vars

\* One process long enough for two periodic saves: a service whose
\* scale-out recovers it, and another whose scale-out fails and leaves the
\* system as it was.
RetryInputs ==
    { [pre |-> SnapCritical, post |-> SnapRecovered, ok |-> TRUE,
       actions |-> << Candidate("horizontal", "increase", 1, 0, 1) >>],
      [pre |-> SnapNoisy, post |-> SnapNoisy, ok |-> FALSE,
       actions |-> << Candidate("horizontal", "increase", 1, 0, 1) >>] }

EnrichSteady ==
    /\ pc = "idle"
    /\ enrich_calls < MaxRetryCalls
    /\ \E in \in RetryInputs : enrich_call(in)

NextRetry == EnrichSteady

SpecRetry == InitEnrich /\ [][NextRetry]_vars

\* ------------------------------------------------------ the monitoring loop
\* The pods get_pods found when main() started, each name split at its
\* hyphens: the pods of the deployment in front of the orchestrator.
Pods ==
    << <<"acmeair", "flight", "7d9f8c", "x2k4p">>,
       <<"acmeair", "flight", "7d9f8c", "q8w1z">>,
       <<"acmeair", "flight", "7d9f8c", "m5n3b">>,
       <<"acmeair", "flight", "7d9f8c", "t7y6r">> >>

\* "-".join(parts[:-2])
normalize_service_name(pod_name) == SubSeq(pod_name, 1, Len(pod_name) - 2)

\* run_monitoring_cycle calls run_aware_cycle once per pod, in list order,
\* and main() calls run_monitoring_cycle once per interval: the k-th cycle
\* of the orchestrator belongs to this interval and this pod.
interval_of_cycle(k) == ((k - 1) \div Len(Pods)) + 1

pod_of_cycle(k) == Pods[((k - 1) % Len(Pods)) + 1]

service_of_cycle(k) == normalize_service_name(pod_of_cycle(k))

\* A statement of the loop body outside run_aware_cycle's try raises an
\* Exception between two cycles: main() prints the traceback, exports
\* inside try/except and leaves with sys.exit(1).
UnexpectedError ==
    /\ main_pc = "loop"
    /\ pc = "idle"
    /\ export_knowledge("knowledge_export_error.json")
    /\ main_pc' = "failed"
    /\ interrupted_at' = pc
    /\ pc' = "exited"
    /\ UNCHANGED <<cycle_count, calls, csv_rows, status, cycle_log, raised,
                   data_vars, act_vars, cluster_vars, reflect_vars,
                   enrich_vars, ghost_vars, starts>>

\* main() has constructed the orchestrator; no other client writes to the
\* deployment while it runs.
InitMain ==
    /\ InitIdle
    /\ ext_budget = 0

NextMain ==
    \/ StartCycle
    \/ Assess
    \/ Weigh
    \/ Stable
    \/ ActBegin
    \/ ExecuteAction
    \/ PatchGet
    \/ PatchWrite
    \/ ActReturn
    \/ PostAssess
    \/ Reflect
    \/ Enrich
    \/ Complete
    \/ Interrupt
    \/ UnexpectedError

SpecMain == InitMain /\ [][NextMain]_vars

\* main() is one thread in 'while True': a stage call that can return or
\* raise does, and a cycle that has returned is followed by the next one.
\* Nothing obliges the interrupt or the unexpected exception to happen.
LoopStep ==
    \/ StartCycle
    \/ Assess
    \/ Weigh
    \/ Stable
    \/ ActBegin
    \/ ExecuteAction
    \/ PatchGet
    \/ PatchWrite
    \/ ActReturn
    \/ PostAssess
    \/ Reflect
    \/ Enrich
    \/ Complete

SpecMainFair == SpecMain /\ WF_vars(LoopStep)

\* ================================================================ claims
StageOrder == <<"assess", "weigh", "act", "assess", "reflect", "enrich">>
TerminalStatuses == {"aborted", "stable", "completed", "error"}

ExecutionFailed ==
    ~IsNone(execution_result) /\ ~Val(execution_result).success

Called(stage) == \E i \in DOMAIN calls : calls[i] = stage

TotalAdaptations(k) ==
    IF IsNone(k.statistics) THEN 0 ELSE Val(k.statistics).total_adaptations

SuccessfulAdaptations(k) ==
    IF IsNone(k.statistics) THEN 0
    ELSE Val(k.statistics).successful_adaptations

C2_StageOrder ==
    /\ Len(calls) <= Len(StageOrder)
    /\ \A i \in 1..Len(calls) : calls[i] = StageOrder[i]
    /\ pc = "assess" => Len(calls) = 0
    /\ pc = "weigh" => Len(calls) = 1
    /\ pc \in {"stable", "act"} => Len(calls) = 2
    /\ pc \in {"act_loop", "patch_get", "patch_write", "post_assess"}
          => Len(calls) = 3
    /\ pc = "reflect" => Len(calls) = 4
    /\ pc = "enrich" => Len(calls) = 5
    /\ pc = "complete" => Len(calls) = 6
    /\ status = "completed" => calls = StageOrder

C2_Witness ==
    /\ status = "completed"
    /\ calls = StageOrder
    /\ cycle_count = 2

\* C3: every call of run_aware_cycle that is over has returned a result
\* with a status among aborted, stable, completed, error; a stage call that
\* raised gave status error and nothing else does; a running cycle can
\* always take a step, and a new call starts from fresh cycle data whatever
\* the earlier cycles ended with.
C3_AlwaysReturnsStatus ==
    /\ Len(cycle_log) = (IF pc = "idle" THEN cycle_count ELSE cycle_count - 1)
    /\ \A i \in DOMAIN cycle_log : cycle_log[i] \in TerminalStatuses
    /\ (pc = "idle" /\ cycle_count > 0) =>
          /\ status \in TerminalStatuses
          /\ status = cycle_log[cycle_count]
          /\ (raised # "") <=> (status = "error")
    /\ pc # "idle" => (status = "running" /\ raised = "" /\ ENABLED Next)
    /\ (pc = "idle" /\ cycle_count < MaxCycles) => ENABLED StartCycle
    /\ pc = "assess" =>
          /\ IsNone(system_snapshot) /\ IsNone(decision)
          /\ IsNone(execution_result) /\ IsNone(post_snapshot)
          /\ IsNone(reflection) /\ calls = << >>

C3_Witness ==
    /\ cycle_log = <<"error", "completed">>
    /\ raised = ""

\* C4: a cycle whose first assess() returned no snapshot ends as aborted
\* after that single call: no decision, no execution, no reflection, and
\* the cluster and the Knowledge Store are as at the start of the cycle.
C4_AbortWithoutSnapshot ==
    /\ (calls # << >> /\ IsNone(system_snapshot) /\ raised = "") =>
          (status = "aborted" /\ pc = "idle")
    /\ status = "aborted" =>
          /\ calls = <<"assess">>
          /\ IsNone(system_snapshot) /\ IsNone(decision)
          /\ IsNone(execution_result) /\ IsNone(reflection)
          /\ Cluster = cluster_at_start
          /\ KnowledgeStore = ks_at_start

C4_Witness ==
    /\ status = "aborted"
    /\ cycle_log = <<"completed", "aborted">>

\* C5: a Decision with an empty action list ends the cycle as stable after
\* assess and weigh alone; act, the second assess, reflect and enrich are
\* not called and the cluster and the Knowledge Store are as at the start
\* of the cycle.  No other cycle ends as stable.
NoActions == ~IsNone(decision) /\ Val(decision).actions = << >>

C5_StableWithoutActions ==
    /\ NoActions =>
          /\ pc \in {"stable", "idle"}
          /\ calls = <<"assess", "weigh">>
          /\ IsNone(execution_result) /\ IsNone(post_snapshot)
          /\ IsNone(reflection)
          /\ Cluster = cluster_at_start
          /\ KnowledgeStore = ks_at_start
    /\ (NoActions /\ pc = "idle") => status = "stable"
    /\ status = "stable" => NoActions

C5_Witness ==
    /\ status = "stable"
    /\ cycle_log = <<"completed", "stable">>
    /\ learning_cycles = 1

\* C6 (as claimed): every entry of the reflection history was produced for
\* an ExecutionResult whose success flag is true.
C6_ReflectionOnlyAfterSuccess ==
    \A i \in DOMAIN reflect_inputs : reflect_inputs[i]

\* C6 (amended): reflect() appends one Reflection per call, for failed
\* executions too; the entry of a failed ExecutionResult is the
\* short-circuit record (success = false, reason "Execution failed", no
\* health delta, improvements or degradations), so an entry with success =
\* true was produced for an ExecutionResult that succeeded.
C6_FailedExecutionGivesFailedReflection ==
    /\ Len(reflection_history) = Len(reflect_inputs)
    /\ \A i \in DOMAIN reflection_history :
          /\ reflection_history[i].success => reflect_inputs[i]
          /\ ~reflect_inputs[i] =>
                /\ reflection_history[i].reason = "Execution failed"
                /\ IsNone(reflection_history[i].health_delta)
                /\ IsNone(reflection_history[i].improvements)
                /\ IsNone(reflection_history[i].degradations)
          /\ reflect_inputs[i] =>
                reflection_history[i].reason # "Execution failed"

C6_Witness ==
    /\ Len(reflection_history) = 2
    /\ ~reflect_inputs[1]
    /\ reflect_inputs[2]
    /\ reflection_history[2].success

\* C7 (as claimed): after n calls of run_aware_cycle the CSV audit log
\* holds n cycle rows, one for each call whatever its terminal status.
C7_OneCsvRowPerCycle ==
    pc = "idle" => Len(csv_rows) = Len(cycle_log)

\* The action _retry_deployment_patch is working for.
ResizeAction ==
    act_actions[CHOOSE i \in DOMAIN act_actions :
                    act_actions[i].name = "vertical"]

ConflictAnswers == <<"got", "conflict">>
TwoConflictsThenAccepted ==
    ConflictAnswers \o ConflictAnswers \o <<"got", "patched">>
ThreeConflicts == ConflictAnswers \o ConflictAnswers \o ConflictAnswers

LastResult == results[Len(results)]

\* C8: attempt number i of a resize gets the deployment afresh (the object
\* it works on is the one the control plane holds at that moment) and sends
\* the transformation applied once to that object.  When the control plane
\* answers a conflict to the first two patches and accepts the third, the
\* resize has returned success after exactly three get-and-patch attempts
\* and the deployment is the third attempt's body.
C8_RetryRefetchesAndSucceeds ==
    /\ \A i \in DOMAIN patch_log :
          /\ patch_log[i].attempt = i - 1
          /\ patch_log[i].got = patch_log[i].live
          /\ patch_log[i].body =
                modify_resources(patch_log[i].live, ResizeAction)
    /\ cp_answers = TwoConflictsThenAccepted =>
          /\ Len(patch_log) = 3
          /\ pc = "act_loop"
          /\ LastResult.success
          /\ deployment.spec = patch_log[3].body
          /\ raised = ""

C8_Witness ==
    /\ cp_answers = TwoConflictsThenAccepted
    /\ patch_log[1].live # patch_log[2].live
    /\ patch_log[2].live # patch_log[3].live
    /\ patch_log[3].body # patch_log[3].live
    /\ LastResult.success

\* C9: a resize makes at most MAX_RETRIES (3) get-and-patch attempts.  When
\* every one of them meets a conflict, _retry_deployment_patch has returned
\* after the third: the action's result has success = false and an error
\* string, and no exception has left act(): the cycle is still running.
C9_AtMostThreeAttempts ==
    /\ Len(patch_log) <= MAX_RETRIES
    /\ attempt <= MAX_RETRIES
    /\ Len(cp_answers) <= 2 * MAX_RETRIES
    /\ cp_answers = ThreeConflicts =>
          /\ pc = "act_loop"
          /\ Len(results) = 1
          /\ ~LastResult.success
          /\ LastResult.error # ""
          /\ raised = ""
          /\ status = "running"

C9_Witness ==
    /\ cp_answers = ThreeConflicts
    /\ Len(patch_log) = MAX_RETRIES
    /\ ~LastResult.success

\* C10: an error other than a conflict, from the get or from the patch,
\* is the last answer the retry loop takes: the loop has returned at once,
\* whatever attempts remained, and the action's result is a failure.
C10_OtherErrorAbortsRetry ==
    \A i \in DOMAIN cp_answers :
        cp_answers[i] \in {"get_error", "patch_error"} =>
            /\ i = Len(cp_answers)
            /\ pc = "act_loop"
            /\ Len(results) = 1
            /\ ~LastResult.success
            /\ LastResult.error # ""
            /\ attempt = Len(patch_log) - (IF cp_answers[i] = "patch_error"
                                             THEN 1 ELSE 0)

C10_Witness ==
    /\ cp_answers = ConflictAnswers \o <<"got", "patch_error">>
    /\ attempt = 1
    /\ ~LastResult.success

\* clamp(x, 1, MAX_PODS)
ClampToPods(x) == Max(1, Min(x, MAX_PODS))

\* C11 (as claimed): whatever replica count is read and whichever way the
\* action scales, the count written back is clamp(current +/- amount, 1,
\* MAX_PODS) and so lies in 1..MAX_PODS.
C11_WrittenReplicasClamped ==
    \A i \in DOMAIN results :
        (results[i].action = "horizontal" /\ results[i].success) =>
            /\ results[i].new_replicas \in 1..MAX_PODS
            /\ results[i].new_replicas =
                  ClampToPods(IF act_actions[i].operation = "increase"
                                 THEN results[i].previous_replicas
                                        + act_actions[i].amount
                                 ELSE results[i].previous_replicas
                                        - act_actions[i].amount)

\* C12: act() gathers one result per action, in the order of the Decision:
\* while the loop runs there is a result for each action already passed, and
\* the ExecutionResult returned has a result for every action, each naming
\* its action's kind; an action of an unsupported kind and an action that
\* raised have a failed result and the actions after them have theirs; the
\* overall success flag is true exactly when every result succeeded.
C12_OneResultPerAction ==
    /\ pc = "act_loop" =>
          /\ Len(results) = act_index - 1
          /\ \A i \in DOMAIN results : results[i].action = act_actions[i].name
    /\ ~IsNone(execution_result) =>
          LET res == Val(execution_result).results
              actions == Val(decision).actions
          IN  /\ Len(res) = Len(actions)
              /\ Val(execution_result).actions_executed = Len(actions)
              /\ \A i \in DOMAIN res :
                    /\ res[i].action = actions[i].name
                    /\ actions[i].name \notin
                          {"horizontal", "vertical", "restart"}
                          => ~res[i].success
                    /\ res[i].success => res[i].error = ""
              /\ Val(execution_result).success
                    <=> (\A i \in DOMAIN res : res[i].success)
              /\ Len(Val(execution_result).errors)
                    = Cardinality({i \in DOMAIN res : ~res[i].success})

C12_Witness ==
    /\ ~IsNone(execution_result)
    /\ ~Val(execution_result).success
    /\ Len(Val(execution_result).results) = 2
    /\ Val(decision).actions[1].name = "migrate"
    /\ Val(decision).actions[2].name = "horizontal"
    /\ ~Val(execution_result).results[1].success
    /\ Val(execution_result).results[2].success
    /\ replicas # cluster_at_start.replicas

\* C13 (as claimed): a control-plane call that hangs, for whichever kind of
\* action, has become a failed result and act() goes on: no state has
\* act() held inside a call that does not answer.
C13_HangBecomesFailure ==
    \A i \in DOMAIN cp_answers :
        cp_answers[i] = "hang" =>
            /\ pc # "blocked"
            /\ results # << >>
            /\ ~results[Len(results)].success

\* weigh() has returned its Decision for the snapshot of this cycle.
Decided == ~IsNone(system_snapshot) /\ ~IsNone(decision)

Healthy(s) == s.health = 100 /\ s.critical = 0 /\ s.anomalies = 0

LowLoad(s) ==
    /\ 4 * s.error_rate < MAX_ERROR_RATE
    /\ 2 * s.latency < MAX_LATENCY
    /\ s.throughput < MIN_THROUGHPUT

\* No rule on the derived metrics matches: error rate and latency at most
\* their thresholds, not the low-load case, cost per request from 50% to
\* 105% of its threshold.
WithinBands(s) ==
    /\ s.error_rate <= MAX_ERROR_RATE
    /\ s.latency <= MAX_LATENCY
    /\ ~LowLoad(s)
    /\ 2 * s.cost >= MAX_COST_PER_REQUEST
    /\ 100 * s.cost <= 105 * MAX_COST_PER_REQUEST

\* C14 (as claimed): for a snapshot with health 100, no violation and no
\* anomaly, weigh() generates no candidate and returns no action.
C14_HealthyMeansNoCandidates ==
    (Decided /\ Healthy(Val(system_snapshot))) =>
        /\ Val(decision).candidates_evaluated = 0
        /\ Val(decision).actions = << >>

\* C14 (amended): for a snapshot with health 100, no violation and no
\* anomaly, weigh() generates no candidate and returns no action exactly
\* when the derived metrics are within their bands (error rate and latency
\* not above threshold, not the low-load case of rule 2, cost per request
\* between 50% and 105% of its threshold); otherwise rules 1 to 4 give one
\* or two candidates, none of them the emergency scale-out or the restart,
\* and the Decision has one action.
C14_HealthyAndWithinBandsMeansNoCandidates ==
    (Decided /\ Healthy(Val(system_snapshot))) =>
        LET s == Val(system_snapshot)
            d == Val(decision)
        IN  /\ WithinBands(s) <=> d.candidates_evaluated = 0
            /\ WithinBands(s) <=> d.actions = << >>
            /\ WithinBands(s) => status \in {"running", "stable"}
            /\ ~WithinBands(s) =>
                  /\ d.candidates_evaluated \in {1, 2}
                  /\ Len(d.actions) = 1
                  /\ status # "stable"
                  /\ \A i \in DOMAIN d.evaluated :
                        /\ d.evaluated[i].priority \in {1, 2, 3}
                        /\ d.evaluated[i].name \in {"horizontal", "vertical"}

C14_Witness ==
    /\ Decided
    /\ Healthy(Val(system_snapshot))
    /\ WithinBands(Val(system_snapshot))
    /\ Val(system_snapshot).cost = 50
    /\ Val(decision).candidates_evaluated = 0
    /\ status = "stable"

\* C15 (as claimed): among the candidates one weigh() call scored, one of
\* tier 0 never has a smaller utility than one of tier 3.
C15_TierZeroNotBelowTierThree ==
    Decided =>
        \A i, j \in DOMAIN Val(decision).evaluated :
            (/\ Val(decision).evaluated[i].priority = 0
             /\ Val(decision).evaluated[j].priority = 3) =>
                Val(decision).evaluated[i].utility
                    >= Val(decision).evaluated[j].utility

\* C15 (amended): the utility of a tier-0 candidate is 100 x (1 - health /
\* 100) and that of a tier-3 candidate at most 40, so within one weigh()
\* call the tier-0 utility is greater than or equal to every tier-3 utility
\* for every health score in [0, 60] and every cost per request; above
\* health 80 it is smaller than the utility of a tier-3 resize-down, which
\* is at least 20.
C15_TierZeroNotBelowTierThreeUpToHealth60 ==
    Decided =>
        LET s == Val(system_snapshot)
            e == Val(decision).evaluated
        IN  \A i, j \in DOMAIN e :
                (e[i].priority = 0 /\ e[j].priority = 3) =>
                    /\ e[i].utility = 100 * (100 - s.health)
                    /\ e[j].utility <= 40 * 100
                    /\ s.health <= 60 => e[i].utility >= e[j].utility
                    /\ e[j].name = "vertical" => e[j].utility >= 20 * 100
                    /\ (s.health > 80 /\ e[j].name = "vertical")
                          => e[i].utility < e[j].utility

C15_Witness ==
    /\ Decided
    /\ Val(system_snapshot).health = 40
    /\ Len(Val(decision).evaluated) = 3
    /\ Val(decision).evaluated[1].priority = 3
    /\ Val(decision).evaluated[2].priority = 3
    /\ Val(decision).evaluated[3].priority = 0
    /\ Val(decision).actions[1].priority = 0

\* The place of the rule that builds a candidate in the rule order: rule
\* 1 or 2, rule 3 or 4, rule 5, rule 6.
RuleOrder(c) ==
    CASE c.name = "horizontal" /\ c.priority # 0 -> 1
      [] c.name = "vertical" -> 2
      [] c.name = "horizontal" -> 3
      [] OTHER -> 4

\* Candidate i of the scored list has the largest utility, and no candidate
\* before it has as much.
FirstOfMaxUtility(e, i) ==
    /\ \A j \in DOMAIN e : e[j].utility <= e[i].utility
    /\ \A j \in 1..(i - 1) : e[j].utility < e[i].utility

\* C16: a Decision has at most one action; without candidates it has none;
\* with candidates (which stand in rule order) its action is one of them,
\* with its utility, and that utility is the largest of all; of several
\* candidates with the largest utility it is the first in rule order.
C16_SelectsFirstOfMaxUtility ==
    Decided =>
        LET e == Val(decision).evaluated
            a == Val(decision).actions
        IN  /\ Len(a) <= 1
            /\ Len(e) = Val(decision).candidates_evaluated
            /\ \A i, j \in DOMAIN e :
                  i < j => RuleOrder(e[i]) < RuleOrder(e[j])
            /\ e = << >> => a = << >>
            /\ e # << >> =>
                  /\ Len(a) = 1
                  /\ \E i \in DOMAIN e :
                        a[1] = e[i] /\ FirstOfMaxUtility(e, i)

\* Two candidates share the largest utility, and the one generated first
\* was selected and handed to act().
C16_Witness ==
    /\ Decided
    /\ pc = "act_loop"
    /\ LET e == Val(decision).evaluated
       IN  /\ Len(e) = 3
           /\ e[1].utility = e[2].utility
           /\ e[3].utility < e[1].utility
           /\ e[1].utility > 0
           /\ act_actions = << e[1] >>

\* The snapshot has an error rate above its threshold and a violation of
\* severity <= 2.
ErrorsAndCritical(s) == s.error_rate > MAX_ERROR_RATE /\ s.critical > 0

TierOneScaleOut(s) ==
    [Candidate("horizontal", "increase", 1, 0, 1)
        EXCEPT !.utility = 80 * (100 - s.health)]

EmergencyScaleOut(s) ==
    [Candidate("horizontal", "increase", 2, 0, 0)
        EXCEPT !.utility = 100 * (100 - s.health)]

Scored(c) ==
    \E i \in DOMAIN Val(decision).evaluated : Val(decision).evaluated[i] = c

\* C17 (as claimed): for such a snapshot weigh() proposes the tier-1
\* scale-out by 1 with utility 80 x (1 - health/100) and the emergency
\* scale-out by 2 with utility 100 x (1 - health/100) and does not choose
\* the tier-1 one; at health 40 and error rate 0.08 the utilities are 48
\* and 60 and the Decision's action is the scale-out by 2.
C17_EmergencyScaleOutSelected ==
    (Decided /\ ErrorsAndCritical(Val(system_snapshot))) =>
        LET s == Val(system_snapshot)
        IN  /\ Scored(TierOneScaleOut(s))
            /\ Scored(EmergencyScaleOut(s))
            /\ Val(decision).actions # << TierOneScaleOut(s) >>
            /\ (s.health = 40 /\ s.error_rate = 800) =>
                  /\ TierOneScaleOut(s).utility = 4800
                  /\ EmergencyScaleOut(s).utility = 6000
                  /\ Val(decision).actions = << EmergencyScaleOut(s) >>

\* C17 (amended): as claimed, except that the Decision's action at health
\* 40 and error rate 0.08 is the scale-out by 2 unless the cost per request
\* is above 105% of its threshold; then the resize-up candidate, whose
\* utility 60 x min(cost / threshold, 2) is above 63, is the action.
C17_EmergencySelectedUnlessCostly ==
    (Decided /\ ErrorsAndCritical(Val(system_snapshot))) =>
        LET s == Val(system_snapshot)
            a == Val(decision).actions
            costly == 100 * s.cost > 105 * MAX_COST_PER_REQUEST
        IN  /\ Scored(TierOneScaleOut(s))
            /\ Scored(EmergencyScaleOut(s))
            /\ a # << TierOneScaleOut(s) >>
            /\ EmergencyScaleOut(s).utility > TierOneScaleOut(s).utility
            /\ (s.health = 40 /\ s.error_rate = 800) =>
                  /\ TierOneScaleOut(s).utility = 4800
                  /\ EmergencyScaleOut(s).utility = 6000
                  /\ ~costly => a = << EmergencyScaleOut(s) >>
                  /\ costly =>
                        /\ Len(a) = 1
                        /\ a[1].name = "vertical"
                        /\ a[1].operation = "increase"
                        /\ a[1].utility > 6300

C17_Witness ==
    /\ Decided
    /\ ErrorsAndCritical(Val(system_snapshot))
    /\ Val(system_snapshot).health = 40
    /\ Val(system_snapshot).error_rate = 800
    /\ Val(system_snapshot).anomalies = 6
    /\ Val(system_snapshot).cost = 30
    /\ Len(Val(decision).evaluated) = 4
    /\ act_actions = << EmergencyScaleOut(Val(system_snapshot)) >>

\* reflect() has returned for this cycle's snapshots and ExecutionResult.
Reflected ==
    /\ ~IsNone(reflection)
    /\ ~IsNone(system_snapshot) /\ ~IsNone(post_snapshot)
    /\ ~IsNone(execution_result)

HealthDelta == Val(post_snapshot).health - Val(system_snapshot).health

\* The metrics that differ between the two snapshots of the cycle.
ChangedMetrics ==
    { i \in DOMAIN Metrics :
        MetricValue(Val(system_snapshot), Metrics[i])
            # MetricValue(Val(post_snapshot), Metrics[i]) }

\* C18: the Reflection of a failed ExecutionResult has success = false
\* whatever the two snapshots hold (also when the health delta or the
\* metrics alone would have meant success), carries the reason "Execution
\* failed" and no health delta, improvements or degradations, and is the
\* entry appended to the reflection history.
C18_FailedExecutionShortCircuits ==
    (Reflected /\ ~Val(execution_result).success) =>
        /\ ~Val(reflection).success
        /\ Val(reflection).reason = "Execution failed"
        /\ IsNone(Val(reflection).health_delta)
        /\ IsNone(Val(reflection).improvements)
        /\ IsNone(Val(reflection).degradations)
        /\ reflection_history # << >>
        /\ reflection_history[Len(reflection_history)] = Val(reflection)

\* The execution failed although the cluster did recover: health up by
\* more than 80 and three metrics better.
C18_Witness ==
    /\ Reflected
    /\ ~Val(execution_result).success
    /\ ~Val(reflection).success
    /\ HealthDelta > SUCCESS_DELTA
    /\ Cardinality(ChangedMetrics) = 3
    /\ identify_degradations(Val(system_snapshot), Val(post_snapshot)) = << >>

\* The execution succeeded and the health delta is in the neutral band.
NeutralBand ==
    /\ Reflected
    /\ Val(execution_result).success
    /\ HealthDelta >= DEGRADATION_DELTA
    /\ HealthDelta <= SUCCESS_DELTA

\* C19 (as claimed): in the neutral band, more degradations than
\* improvements means Reflection success = false; the average magnitudes
\* are compared only when the two are equal in number.
C19_MoreDegradationsMeansFailure ==
    (/\ NeutralBand
     /\ Len(Val(Val(reflection).degradations))
           > Len(Val(Val(reflection).improvements))) =>
        ~Val(reflection).success

\* C20: in the neutral band (its ends -10 and 80 included), more
\* improvements than degradations means Reflection success = true, each
\* list holding the metrics that changed that way by more than 5%; so does
\* health 60 before and 75 after with 3 improvements and 1 degradation.
C20_MoreImprovementsMeansSuccess ==
    NeutralBand =>
        LET imp == Val(Val(reflection).improvements)
            deg == Val(Val(reflection).degradations)
        IN  /\ Val(Val(reflection).health_delta) = HealthDelta
            /\ Len(imp) + Len(deg) <= Cardinality(ChangedMetrics)
            /\ \A i \in DOMAIN imp : imp[i].change_pct > 500
            /\ \A i \in DOMAIN deg : deg[i].change_pct > 500
            /\ Len(imp) > Len(deg) => Val(reflection).success
            /\ (/\ Val(system_snapshot).health = 60
                /\ Val(post_snapshot).health = 75
                /\ Len(imp) = 3 /\ Len(deg) = 1) => Val(reflection).success

C20_Witness ==
    /\ NeutralBand
    /\ Val(system_snapshot).health = 60
    /\ Val(post_snapshot).health = 75
    /\ Len(Val(Val(reflection).improvements)) = 3
    /\ Len(Val(Val(reflection).degradations)) = 1
    /\ Val(reflection).success

EnrichCalled == enrich_calls' = enrich_calls + 1

\* C21: each call of enrich() that returns increases the learning-cycle
\* counter by exactly 1 and the total-adaptations statistic by exactly 1,
\* whatever the reflection outcome and the number of actions; the
\* successful-adaptations statistic rises by 1 exactly when the reflection
\* succeeded, and stays otherwise.
C21_CountersRiseByOne ==
    [][EnrichCalled =>
        /\ learning_cycles' = learning_cycles + 1
        /\ TotalAdaptations(kb') = TotalAdaptations(kb) + 1
        /\ SuccessfulAdaptations(kb') =
              SuccessfulAdaptations(kb)
                 + (IF Val(reflection').success THEN 1 ELSE 0)]_vars

\* Three calls made, the last a failed reflection of a Decision with two
\* actions after a successful one: 3 cycles, 3 adaptations, 1 success.
C21_Witness ==
    /\ enrich_calls = 3
    /\ learning_cycles = 3
    /\ TotalAdaptations(kb) = 3
    /\ SuccessfulAdaptations(kb) = 1
    /\ Len(Val(decision).actions) = 2
    /\ ~Val(reflection).success

\* What a restart would load from the knowledge base file, and how many
\* learning cycles of the knowledge base in memory that lacks.
Reloaded == load_knowledge_base(kb_disk)

Lag == TotalAdaptations(kb) - TotalAdaptations(Reloaded)

\* C22 (as claimed): the Knowledge Store is written to the knowledge base
\* file at every RL_UPDATE_FREQUENCY-th enrich() call and on every shutdown:
\* what a restart reloads lacks at most RL_UPDATE_FREQUENCY - 1 learning
\* cycles when the process is killed, and none after a shutdown.
C22_SavedEveryNthCallAndAtShutdown ==
    /\ (/\ main_pc = "loop"
        /\ learning_cycles > 0
        /\ learning_cycles % RL_UPDATE_FREQUENCY = 0) => Reloaded = kb
    /\ main_pc = "killed" => Lag <= RL_UPDATE_FREQUENCY - 1
    /\ main_pc = "stopped" => Lag = 0

\* A new EnrichAgent has loaded a knowledge base file that an earlier
\* process wrote completely, and has not learnt anything yet.
JustLoaded ==
    /\ main_pc = "loop"
    /\ starts > 1
    /\ learning_cycles = 0
    /\ ~IsNone(ks_at_save)

\* C23 (as claimed): the value table survives a restart: every Q-value in
\* memory when the Knowledge Store was saved is in the value table, with the
\* same value, after a new EnrichAgent has loaded the store.
C23_ValueTableSurvivesRestart ==
    JustLoaded =>
        \A key \in DOMAIN Val(ks_at_save).q_table :
            /\ key \in DOMAIN q_table
            /\ q_table[key] = Val(ks_at_save).q_table[key]

OwnPairs ==
    { <<get_state_key(Val(system_snapshot)),
        action_key_of(Val(decision).actions[i])>> :
        i \in DOMAIN Val(decision).actions }

Touched(key) ==
    \/ (key \in DOMAIN q_table) # (key \in DOMAIN q_table')
    \/ /\ key \in DOMAIN q_table
       /\ key \in DOMAIN q_table'
       /\ q_table'[key] # q_table[key]

\* C25: the value table has an entry for (state key, action key) only if
\* some enrich() call had that pre-adaptation state key and an action with
\* that action key; an enrich() call adds, removes or changes no entry other
\* than those of its own (pre-state, action) pairs, and none when the
\* Decision has no actions.
C25_OnlyObservedPairsInValueTable ==
    /\ [](DOMAIN q_table \subseteq observed)
    /\ [][EnrichCalled =>
            \A key \in DOMAIN q_table \cup DOMAIN q_table' :
                Touched(key) => key \in OwnPairs']_vars

\* Three calls: the first two with different pre-state keys and actions,
\* the third with no action; the value table has the entries of the first
\* two and the post-state key, read for the maximum, has none.
C25_Witness ==
    /\ enrich_calls = 3
    /\ Val(decision).actions = << >>
    /\ Cardinality(DOMAIN q_table) = 3
    /\ \A key \in DOMAIN q_table :
          key[1] # get_state_key(Val(post_snapshot))

\* The pattern keys of the enrich() call just made.
OwnPatternKeys ==
    { create_pattern_key(Val(system_snapshot), Val(decision).actions[i]) :
        i \in DOMAIN Val(decision).actions }

MeetsFloors(count, successes) ==
    /\ count >= MIN_SUPPORT_COUNT
    /\ 100 * successes >= MIN_CONFIDENCE_PCT * count

PatternWritten(key) ==
    /\ key \in DOMAIN kb'.patterns
    /\ key \in DOMAIN kb.patterns => kb'.patterns[key] # kb.patterns[key]

\* C26: an enrich() call writes a pattern key into the pattern table exactly
\* when the key is one of the call's and, after counting this cycle, its
\* occurrence count is at least 3 and its successes are at least 70% of its
\* occurrences; every key in the table was written with both floors met.
C26_PatternWrittenIffFloorsMet ==
    /\ [](\A key \in DOMAIN kb.patterns :
            MeetsFloors(kb.patterns[key].support, kb.patterns[key].successes))
    /\ [][EnrichCalled =>
            \A key \in DOMAIN kb'.patterns \cup DOMAIN pattern_counts' :
                PatternWritten(key) <=>
                    /\ key \in OwnPatternKeys'
                    /\ MeetsFloors(pattern_counts'[key],
                                   Get(pattern_successes', key, 0))]_vars

\* Four calls: one key was promoted by its third successful occurrence,
\* another has been counted and is not in the table.
C26_Witness ==
    /\ enrich_calls = 4
    /\ \E key \in DOMAIN kb.patterns : kb.patterns[key].support = 3
    /\ \E key \in DOMAIN pattern_counts : key \notin DOMAIN kb.patterns

\* C27 (as claimed): a shutdown signal that arrives while a cycle is in
\* flight lets the stage in progress finish: the cycle has a terminal
\* status, act() once entered has left its ExecutionResult, and the
\* knowledge base file holds the Knowledge Store when the process exits.
C27_ShutdownFinishesStageAndFlushes ==
    (main_pc = "stopped" /\ interrupted_at # "idle") =>
        /\ status \in TerminalStatuses
        /\ Called("act") => ~IsNone(execution_result)
        /\ Reloaded = kb

\* C29 (as claimed): within one monitoring interval each service goes
\* through at most one AWARE cycle, so at most one cycle of the interval
\* carries an adaptation of its deployment through, also when several pods
\* normalize to the same service name.
C29_OneCyclePerServicePerInterval ==
    /\ \A i, j \in 1..cycle_count :
          (i < j /\ interval_of_cycle(i) = interval_of_cycle(j)) =>
              service_of_cycle(i) # service_of_cycle(j)
    /\ \A i, j \in DOMAIN cycle_log :
          (/\ i < j
           /\ interval_of_cycle(i) = interval_of_cycle(j)
           /\ service_of_cycle(i) = service_of_cycle(j)) =>
              ~(cycle_log[i] = "completed" /\ cycle_log[j] = "completed")

\* The last export_knowledge call was made by the handler the process left
\* through, with the knowledge that is in memory.
ExportedAtExit ==
    /\ exports # << >>
    /\ LET last == exports[Len(exports)]
       IN  /\ last.file = IF main_pc = "stopped"
                             THEN "knowledge_export_final.json"
                             ELSE "knowledge_export_error.json"
           /\ last.learning_cycles = learning_cycles
           /\ last.patterns = kb.patterns
           /\ last.statistics = kb.statistics

\* C30: after a cycle that ended in aborted or error the monitoring loop
\* goes on to the next cycle, unless the process is interrupted or hit by an
\* unexpected exception; and every exit of the loop, by interrupt or by
\* unexpected exception, comes after a call of export_knowledge for the
\* learned knowledge (whose own I/O error is caught and logged).
C30_LoopGoesOnAndExitsExport ==
    /\ [](main_pc \in {"stopped", "failed"} => ExportedAtExit)
    /\ \A k \in 1..(MaxCycles - 1) :
          (/\ Len(cycle_log) = k
           /\ cycle_count = k
           /\ cycle_log[k] \in {"aborted", "error"})
             ~> (cycle_count = k + 1 \/ main_pc # "loop")

\* The first cycle ended in error, the loop went on to a second cycle, and
\* the process was interrupted in it: the final export has been made.
C30_Witness ==
    /\ main_pc = "stopped"
    /\ cycle_count = 2
    /\ cycle_log = <<"error">>
    /\ interrupted_at = "weigh"
    /\ ExportedAtExit

\* What enrich() leaves in memory after a call with this reflection and
\* this decision, computed from the memory before it.
MemoryAfter(r, d, pre_state, post_state) ==
    LET health_delta == IF IsNone(r.health_delta) THEN 0
                        ELSE Val(r.health_delta)
        mined == mine_patterns(
                    [counts |-> pattern_counts,
                     successes |-> pattern_successes,
                     patterns |-> kb.patterns, learned |-> << >>],
                    pre_state, d.actions, r.success, health_delta, 1)
    IN  [learning_cycles |-> learning_cycles + 1,
         q_table |-> update_rl_policies(q_table, pre_state, d.actions,
                        post_state,
                        calculate_reward(health_delta, r.success), 1),
         pattern_counts |-> mined.counts,
         pattern_successes |-> mined.successes,
         kb |-> [patterns |-> mined.patterns,
                 statistics |-> update_statistics(kb.statistics, d.actions,
                                                  r.success)]]

SaveFailed ==
    /\ save_attempts' = save_attempts + 1
    /\ kb_disk' # Pickled(kb')

\* C31: a failed write of the knowledge base file does not stop enrich():
\* the call returns with the patterns, the value table, the statistics and
\* the learning-cycle counter that the call computes whatever the write
\* did, and the write is attempted at every N-th learning cycle, also after
\* a failed one.
C31_FailedSaveKeepsMemoryAndIsRetried ==
    /\ [](save_attempts = learning_cycles \div RL_UPDATE_FREQUENCY)
    /\ [][SaveFailed =>
            /\ EnrichCalled
            /\ ~IsNone(reflection')
            /\ KnowledgeStore' =
                  MemoryAfter(Val(reflection'), Val(decision'),
                              Val(system_snapshot'), Val(post_snapshot'))]_vars

\* The write failed at the 10th learning cycle and failed again at the
\* 20th: the file never appeared, and the memory holds all 20 cycles.
C31_Witness ==
    /\ learning_cycles = 2 * RL_UPDATE_FREQUENCY
    /\ save_attempts = 2
    /\ IsNone(kb_disk)
    /\ TotalAdaptations(kb) = 2 * RL_UPDATE_FREQUENCY
    /\ DOMAIN q_table # {}
    /\ DOMAIN kb.patterns # {}

\* A resize-down chosen for a cheap snapshot has been executed successfully:
\* the control plane accepted the body of the last attempt.
ResizeDownDone ==
    /\ system_snapshot = Some(SnapCheap)
    /\ Len(act_actions) = 1
    /\ act_actions[1].name = "vertical"
    /\ act_actions[1].operation = "decrease"
    /\ pc = "act_loop"
    /\ Len(results) = 1
    /\ LastResult.success

\* C32: after a resize-down that was selected and executed successfully,
\* every present request and limit of the deployment is no larger than it
\* was when the successful attempt read the deployment.
C32_ResizeDownNeverIncreases ==
    ResizeDownDone =>
        \A r \in DOMAIN deployment.spec :
            deployment.spec[r] <= patch_log[Len(patch_log)].live[r]

\* C33: the Decision weigh() returns for a snapshot (its actions, its
\* candidates and their utilities) is the one it returns with an empty
\* knowledge base, whatever the EnrichAgent has learnt so far: learnt
\* knowledge never moves an action above where its utility puts it.
C33_DecisionIgnoresKnowledge ==
    (~IsNone(system_snapshot) /\ ~IsNone(decision)) =>
        Val(decision) = weigh(Val(system_snapshot), EmptyKnowledgeBase)

\* The second cycle of a process: the first cycle's enrich() has filled the
\* knowledge base, and weigh() chose one of several candidates.
C33_Witness ==
    /\ cycle_count = 2
    /\ kb # EmptyKnowledgeBase
    /\ ~IsNone(decision)
    /\ Val(decision).candidates_evaluated >= 2
    /\ Len(Val(decision).actions) = 1

\* C34: the utility-score record of a Decision of weigh() has one entry for
\* each evaluated candidate: as many entries as candidates_evaluated.
C34_OneScorePerCandidate ==
    Decided =>
        Cardinality(DOMAIN Val(decision).utility_scores) =
            Val(decision).candidates_evaluated

\* The one-step update with the configured rates, in 1/1000.
ConfiguredUpdate(q, pre_key, post_key, action, reward) ==
    LET q_key == <<pre_key, action_key_of(action)>>
        current_q == Get(q, q_key, 0)
        next_max_q == SetMax({Get(q, <<post_key, a>>, 0) :
                                 a \in get_possible_actions})
        target == reward + (DISCOUNT_FACTOR * next_max_q) \div 1000 - current_q
    IN  Put(q, q_key, current_q + (POLICY_LEARNING_RATE * target) \div 1000)

RECURSIVE ConfiguredUpdates(_, _, _, _, _, _)
ConfiguredUpdates(q, pre_key, post_key, actions, reward, i) ==
    IF i > Len(actions) THEN q
    ELSE ConfiguredUpdates(
            ConfiguredUpdate(q, pre_key, post_key, actions[i], reward),
            pre_key, post_key, actions, reward, i + 1)

\* health_delta / 10 + 10 on success, health_delta / 10 - 5 on failure, in
\* 1/1000; no health delta counts as 0.
ClaimedReward(r) ==
    (IF IsNone(r.health_delta) THEN 0 ELSE Val(r.health_delta) * 100)
        + (IF r.success THEN 10000 ELSE 0 - 5000)

\* C35: for each action of the cycle, in order, enrich() sets Q(s,a) to
\* Q(s,a) + alpha * (reward + gamma * max over the five action keys of
\* Q(s',.) - Q(s,a)), unseen pairs counting as 0, with alpha =
\* POLICY_LEARNING_RATE and gamma = DISCOUNT_FACTOR.
C35_ValueUpdateWithConfiguredRates ==
    [][EnrichCalled =>
        q_table' = ConfiguredUpdates(q_table,
                       get_state_key(Val(system_snapshot')),
                       get_state_key(Val(post_snapshot')),
                       Val(decision').actions,
                       ClaimedReward(Val(reflection')), 1)]_vars

\* C36: when the post-adaptation assess() returns no snapshot the cycle goes
\* on with the pre-adaptation snapshot as post snapshot: it is still running
\* until a later stage raises or the cycle ends, and then it has ended with
\* status "completed" after reflect and enrich; the Reflection of a
\* successful execution has health delta 0, no improvements, no degradations
\* and success = false.
C36_NoPostSnapshotFallsBack ==
    post_answer = "no_snapshot" =>
        /\ post_snapshot = system_snapshot
        /\ raised = "" =>
              IF pc = "idle"
                 THEN /\ status = "completed"
                      /\ SubSeq(calls, Len(calls) - 1, Len(calls)) =
                            <<"reflect", "enrich">>
                 ELSE status = "running"
        /\ (~IsNone(reflection) /\ Val(execution_result).success) =>
              /\ Val(reflection).health_delta = Some(0)
              /\ Val(reflection).improvements = Some(<< >>)
              /\ Val(reflection).degradations = Some(<< >>)
              /\ ~Val(reflection).success

\* A cycle for a noisy service whose restart went through and whose second
\* assess() returned nothing has ended.
C36_Witness ==
    /\ post_answer = "no_snapshot"
    /\ pc = "idle"
    /\ status = "completed"
    /\ Val(execution_result).success
    /\ Val(reflection).health_delta = Some(0)
    /\ ~Val(reflection).success
    /\ learning_cycles >= 1

\* The process that has run since the system was set up, with the pattern
\* counts it has kept since then.
FirstProcess == starts = 1

\* The entry of key in the pattern table has the support and the successes
\* (confidence = successes / support) that the running counts give now.
AgreesWithCounts(key) ==
    /\ kb.patterns[key].support = pattern_counts[key]
    /\ kb.patterns[key].successes = Get(pattern_successes, key, 0)

\* C37 (as claimed): in one process every entry of the pattern table agrees
\* with the running counts of its key, support and confidence, and these
\* meet the minimum-confidence floor: no entry stays with old values.
C37_EntriesAgreeWithCounts ==
    FirstProcess =>
        \A key \in DOMAIN kb.patterns :
            /\ AgreesWithCounts(key)
            /\ 100 * Get(pattern_successes, key, 0)
                  >= MIN_CONFIDENCE_PCT * pattern_counts[key]

\* C37 (amended): in one process every entry of the pattern table has the
\* support and the confidence its key had at the key's last occurrence that
\* met both floors: they meet the floors, are at most the running counts,
\* and equal the running counts exactly when those meet the floors now; an
\* entry whose success rate has since fallen below the floor stays in the
\* table with its old values.
C37_EntriesAgreeWithLastPromotion ==
    /\ [](FirstProcess =>
            \A key \in DOMAIN kb.patterns :
                /\ MeetsFloors(kb.patterns[key].support,
                               kb.patterns[key].successes)
                /\ kb.patterns[key].support <= pattern_counts[key]
                /\ kb.patterns[key].successes
                      <= Get(pattern_successes, key, 0)
                /\ AgreesWithCounts(key) <=>
                      MeetsFloors(pattern_counts[key],
                                  Get(pattern_successes, key, 0)))
    /\ [][(FirstProcess /\ EnrichCalled) =>
            \A key \in DOMAIN kb.patterns :
                /\ key \in DOMAIN kb'.patterns
                /\ ~MeetsFloors(pattern_counts'[key],
                                Get(pattern_successes', key, 0))
                      => kb'.patterns[key] = kb.patterns[key]]_vars

\* Three successful occurrences promoted the key, the fourth occurrence, a
\* failure, rewrote the entry at 3 of 4, and the fifth, a failure too, left
\* it: the entry says 3 of 4, the counts say 3 of 5.
C37_Witness ==
    /\ FirstProcess
    /\ \E key \in DOMAIN kb.patterns :
          /\ kb.patterns[key].support = 4
          /\ kb.patterns[key].successes = 3
          /\ pattern_counts[key] = 5
          /\ pattern_successes[key] = 3

\* The metrics a list of improvements or degradations names.
MetricsNamed(list) == { list[i].metric : i \in DOMAIN list }

\* C38: in every Reflection that carries the two lists, no metric is in both
\* the improvement list and the degradation list, and a metric whose value
\* before the adaptation is 0 is in neither, whatever its value after.
C38_ListsDisjointAndZeroPreIgnored ==
    (Reflected /\ ~IsNone(Val(reflection).improvements)) =>
        LET improved == MetricsNamed(Val(Val(reflection).improvements))
            degraded == MetricsNamed(Val(Val(reflection).degradations))
        IN  /\ improved \cap degraded = {}
            /\ \A i \in DOMAIN Metrics :
                  MetricValue(Val(system_snapshot), Metrics[i]) = 0 =>
                      Metrics[i] \notin improved \cup degraded

\* The error rate went from 0 to 9%, the latency fell and the cost rose:
\* one improvement, one degradation, and the error rate in neither list.
C38_Witness ==
    /\ Reflected
    /\ ~IsNone(Val(reflection).improvements)
    /\ Val(system_snapshot).error_rate = 0
    /\ Val(post_snapshot).error_rate = 900
    /\ MetricsNamed(Val(Val(reflection).improvements)) = {"http.latency"}
    /\ MetricsNamed(Val(Val(reflection).degradations)) = {"cost.per.request"}

\* C39: weigh() returns an empty action list exactly when no rule produced
\* a candidate.  With at least one candidate the Decision has one action,
\* whatever its utility, the cycle does not end as stable and act() is
\* entered with that action; without candidates act() is not entered.
C39_EmptyOnlyWithoutCandidates ==
    Decided =>
        LET d == Val(decision)
        IN  /\ d.actions = << >> <=> d.candidates_evaluated = 0
            /\ d.candidates_evaluated >= 1 =>
                  /\ Len(d.actions) = 1
                  /\ status # "stable"
                  /\ pc = "act" \/ calls[Len(calls)] = "act"
                  /\ pc = "act_loop" => act_actions = d.actions
            /\ d.candidates_evaluated = 0 =>
                  /\ pc \in {"stable", "idle"}
                  /\ status \in {"running", "stable"}
                  /\ calls[Len(calls)] = "weigh"
                  /\ act_actions = << >>

\* A scale-out candidate at health 100 has utility 0; it is the only
\* candidate, and act() has been entered with it.
C39_Witness ==
    /\ Decided
    /\ Val(system_snapshot).health = 100
    /\ Val(decision).candidates_evaluated = 1
    /\ pc = "act_loop"
    /\ Len(act_actions) = 1
    /\ act_actions[1].name = "horizontal"
    /\ act_actions[1].operation = "increase"
    /\ act_actions[1].utility = 0

====
